---------------------------- MODULE Spec2Model ----------------------------
(***************************************************************************)
(* A model of the Vite HTML Editor: the code view (src/src/code/           *)
(* CodeTabs.tsx), the editor glue (src/unnamed/part_001, editor/sync) and  *)
(* the export pipeline of src/src/App.tsx.                                 *)
(*                                                                         *)
(* Text is a sequence of one-character strings.  Fixed text of a template  *)
(* literal is kept as one element per template piece, so that a document   *)
(* is the concatenation the template literal builds.                       *)
(***************************************************************************)
EXTENDS Integers, Sequences, FiniteSets, TLC

(***************************************************************************)
(* Bounds of the model.                                                    *)
(***************************************************************************)
\* characters typed into the three head-settings fields, all together
MaxChars == 3
\* change events delivered between two rendering frames
MaxEvents == 2
\* tokens of the children of one node of the Document
MaxContentLen == 3

(***************************************************************************)
(* Characters.                                                             *)
(***************************************************************************)
\* white space as String.prototype.trim and the regular expression \s see it
WhiteSpace == {" ", "\t", "\n"}

\* the character class of the first replace of exportProjectFiles
ForbiddenChars == {"\\", "/", ":", "*", "?", "\"", "<", ">", "|"}

\* what the settings dialog's inputs can be made to hold, one character at a time
NameAlphabet == {"a", " ", "/", ":"}
TitleAlphabet == {"T", " ", "&", "<", ">", "\"", "'"}
HeadAlphabet == {"<", "&"}

(***************************************************************************)
(* String operations of JavaScript, computed the way the engine computes   *)
(* them: left to right, each match replaced as it is found.                *)
(***************************************************************************)
RECURSIVE trimStart(_)
trimStart(s) ==
    IF s # <<>> /\ Head(s) \in WhiteSpace THEN trimStart(Tail(s)) ELSE s

RECURSIVE trimEnd(_)
trimEnd(s) ==
    IF s # <<>> /\ s[Len(s)] \in WhiteSpace
    THEN trimEnd(SubSeq(s, 1, Len(s) - 1))
    ELSE s

\* String.prototype.trim
trim(s) == trimEnd(trimStart(s))

\* the longest prefix of s made of characters of class
RECURSIVE RunLength(_, _)
RunLength(s, class) ==
    IF s # <<>> /\ Head(s) \in class THEN 1 + RunLength(Tail(s), class) ELSE 0

\* s.replace(/[class]+/g, rep): every maximal run of class characters, found
\* left to right, is replaced by rep
RECURSIVE replaceRuns(_, _, _)
replaceRuns(s, class, rep) ==
    IF s = <<>> THEN <<>>
    ELSE IF Head(s) \in class
         THEN rep \o replaceRuns(SubSeq(s, RunLength(s, class) + 1, Len(s)), class, rep)
         ELSE <<Head(s)>> \o replaceRuns(Tail(s), class, rep)

\* s.replaceAll(ch, rep) for a one-character pattern
RECURSIVE replaceAll(_, _, _)
replaceAll(s, ch, rep) ==
    IF s = <<>> THEN <<>>
    ELSE (IF Head(s) = ch THEN rep ELSE <<Head(s)>>) \o replaceAll(Tail(s), ch, rep)

\* a || b on strings: the empty string is falsy
OrElse(a, b) == IF a = <<>> THEN b ELSE a

(***************************************************************************)
(* Values of JavaScript that a stored entry can parse to.  An object is a  *)
(* record of its own properties; null and a number are tagged records, so  *)
(* that every value is a record.                                           *)
(***************************************************************************)
JsNull == [jsType |-> "null"]
JsNumber(n) == [jsType |-> "number", value |-> n]
EmptyObject == [f \in {} |-> <<>>]

IsNull(v) == "jsType" \in DOMAIN v /\ v.jsType = "null"
IsObject(v) == "jsType" \notin DOMAIN v

\* v.f where a string is expected and only its truthiness or its text is
\* used: undefined reads as the empty text
Get(v, f) == IF IsObject(v) /\ f \in DOMAIN v THEN v[f] ELSE <<>>

\* { ...v, f: x }: spreading null or a number gives no property
With(v, f, x) ==
    LET own == IF IsObject(v) THEN DOMAIN v ELSE {}
    IN  [g \in own \cup {f} |-> IF g = f THEN x ELSE v[g]]

(***************************************************************************)
(* JSON.stringify and JSON.parse, for the values above.  A JSON text is a  *)
(* sequence of characters, except that a property's quoted name with its   *)
(* colon is one element, the name.  Properties are written in the order    *)
(* of the list of names given.                                             *)
(***************************************************************************)
HeadKeys == <<"pageTitle", "headHtml", "exportBaseName">>
PaletteKeys == <<"accent", "bg", "panel", "panel2", "border", "text", "muted">>
JsonNames ==
    {HeadKeys[i] : i \in 1..Len(HeadKeys)} \cup {PaletteKeys[i] : i \in 1..Len(PaletteKeys)}

\* a plausible slip: the backslash left as it is
JsonEscapeChar_RawBackslash(c) ==
    CASE c = "\"" -> <<"\\", "\"">>
      [] c = "\n" -> <<"\\", "n">>
      [] c = "\t" -> <<"\\", "t">>
      [] OTHER -> <<c>>

\* the escape sequences of a JSON string literal
JsonEscapeChar(c) ==
    CASE c = "\"" -> <<"\\", "\"">>
      [] c = "\\" -> <<"\\", "\\">>
      [] c = "\n" -> <<"\\", "n">>
      [] c = "\t" -> <<"\\", "t">>
      [] OTHER -> <<c>>

RECURSIVE JsonEscape(_)
JsonEscape(s) ==
    IF s = <<>> THEN <<>> ELSE JsonEscapeChar(Head(s)) \o JsonEscape(Tail(s))

\* a string literal
JsonQuote(s) == <<"\"">> \o JsonEscape(s) \o <<"\"">>

RECURSIVE JsonMembers(_, _, _)
JsonMembers(v, keys, first) ==
    IF keys = <<>> THEN <<>>
    ELSE IF Head(keys) \in DOMAIN v
         THEN (IF first THEN <<>> ELSE <<",">>)
              \o <<Head(keys)>> \o JsonQuote(v[Head(keys)])
              \o JsonMembers(v, Tail(keys), FALSE)
         ELSE JsonMembers(v, Tail(keys), first)

\* JSON.stringify(v) of null, a number or an object of strings
JsonStringify(v, keys) ==
    IF IsNull(v) THEN <<"n", "u", "l", "l">>
    ELSE IF ~IsObject(v) THEN <<v.value>>
    ELSE <<"{">> \o JsonMembers(v, keys, TRUE) \o <<"}">>

JsonFail(i) == [ok |-> FALSE, value |-> <<>>, next |-> i]

\* the characters of a string literal from position i on, up to its closing
\* quote: the text read and the position after the quote, or a syntax error
RECURSIVE JsonReadString(_, _, _)
JsonReadString(t, i, acc) ==
    IF i > Len(t) THEN JsonFail(i)
    ELSE IF t[i] = "\"" THEN [ok |-> TRUE, value |-> acc, next |-> i + 1]
    ELSE IF t[i] = "\\"
         THEN IF i + 1 > Len(t) THEN JsonFail(i)
              ELSE IF t[i + 1] \in {"\"", "\\"}
                   THEN JsonReadString(t, i + 2, Append(acc, t[i + 1]))
              ELSE IF t[i + 1] = "n" THEN JsonReadString(t, i + 2, Append(acc, "\n"))
              ELSE IF t[i + 1] = "t" THEN JsonReadString(t, i + 2, Append(acc, "\t"))
              ELSE JsonFail(i)
    ELSE IF t[i] \in {"\n", "\t"} \cup JsonNames THEN JsonFail(i)
    ELSE JsonReadString(t, i + 1, Append(acc, t[i]))

\* the members of an object from position i on, up to its closing brace
RECURSIVE JsonReadMembers(_, _, _)
JsonReadMembers(t, i, obj) ==
    IF i + 1 > Len(t) \/ t[i] \notin JsonNames \/ t[i + 1] # "\""
    THEN [ok |-> FALSE, value |-> obj]
    ELSE LET str == JsonReadString(t, i + 2, <<>>)
         IN  IF ~str.ok \/ str.next > Len(t) THEN [ok |-> FALSE, value |-> obj]
             ELSE IF t[str.next] = "}"
                  THEN [ok |-> str.next = Len(t), value |-> With(obj, t[i], str.value)]
             ELSE IF t[str.next] = ","
                  THEN JsonReadMembers(t, str.next + 1, With(obj, t[i], str.value))
             ELSE [ok |-> FALSE, value |-> obj]

Digits == {"0", "1", "2", "3", "4", "5", "6", "7", "8", "9"}

\* JSON.parse(t): the value, or a SyntaxError
JsonParse(t) ==
    IF t = <<"n", "u", "l", "l">> THEN [ok |-> TRUE, value |-> JsNull]
    ELSE IF Len(t) = 1 /\ t[1] \in Digits THEN [ok |-> TRUE, value |-> JsNumber(t[1])]
    ELSE IF t = <<"{", "}">> THEN [ok |-> TRUE, value |-> EmptyObject]
    ELSE IF t # <<>> /\ t[1] = "{" THEN JsonReadMembers(t, 2, EmptyObject)
    ELSE [ok |-> FALSE, value |-> JsNull]

(***************************************************************************)
(* src/src/App.tsx: escapeHtml.                                            *)
(***************************************************************************)
AmpEntity == <<"&", "a", "m", "p", ";">>
LtEntity == <<"&", "l", "t", ";">>
GtEntity == <<"&", "g", "t", ";">>
QuotEntity == <<"&", "q", "u", "o", "t", ";">>
AposEntity == <<"&", "#", "3", "9", ";">>

\* a plausible slip: the ampersand pass run last, escaping the entities again
escapeHtml_AmpLast(s) ==
    replaceAll(
      replaceAll(
        replaceAll(
          replaceAll(
            replaceAll(s, "<", LtEntity),
            ">", GtEntity),
          "\"", QuotEntity),
        "'", AposEntity),
      "&", AmpEntity)

escapeHtml(s) ==
    replaceAll(
      replaceAll(
        replaceAll(
          replaceAll(
            replaceAll(s, "&", AmpEntity),
            "<", LtEntity),
          ">", GtEntity),
        "\"", QuotEntity),
      "'", AposEntity)

(***************************************************************************)
(* The Document Engine (grapesjs, an external collaborator).  Its          *)
(* Document is a list of nodes, each holding the markup of its children;   *)
(* its interface is the one the specification lists: getHtml, getCss,      *)
(* getSelected, setStyle and the selected node's set-children command,     *)
(* the only one that may fail.                                             *)
(***************************************************************************)
NoEditor == "null"
TheEditor == "editor"
NoSelection == "none"

\* the nodes of the Document, in document order
NodeOrder == <<"n1">>
NodeSet == {NodeOrder[i] : i \in 1..Len(NodeOrder)}

\* markup a canvas edit can give a node
CanvasFrags == {<<"a">>, <<"c">>}
\* the starter page and the base CSS set by initViteHtmlEditor
StarterDoc == [n \in NodeSet |-> <<"a">>]
StarterCss == <<"body{margin:0;font-family:system-ui;}">>
CssTexts == {StarterCss, <<"p{color:red;}">>}

\* markup the selected node's set-children command cannot parse
Malformed(html) == \E i \in 1..Len(html) : html[i] = "<bad"
ParseError == "ParseError"

\* the commands of the engine that the code calls outside applyHtmlToSelected,
\* and the error one of them throws when the engine is at fault
EngineCommands == {"getHtml", "getCss", "setStyle"}
EngineError == "EngineError"

RECURSIVE SerializeFrom(_, _)
SerializeFrom(doc, i) ==
    IF i > Len(NodeOrder) THEN <<>>
    ELSE <<"<div>">> \o doc[NodeOrder[i]] \o <<"</div>">> \o SerializeFrom(doc, i + 1)

\* editor.getHtml(): the body's inner HTML
EngineGetHtml(doc) == SerializeFrom(doc, 1)

\* sel.components(html): replace the children of node n, or throw and change nothing
EngineSetChildren(doc, n, html) ==
    IF Malformed(html)
    THEN [threw |-> TRUE, cause |-> ParseError, doc |-> doc]
    ELSE [threw |-> FALSE, cause |-> "", doc |-> [doc EXCEPT ![n] = html]]

(***************************************************************************)
(* State.                                                                  *)
(***************************************************************************)
VARIABLES
    editor,        \* App: the attached engine, or null
    advancedMode,  \* App: the advanced editing mode flag
    jsValue,       \* App: the js text
    headSettings,  \* App: pageTitle, headHtml, exportBaseName
    themeChoice,   \* App: the theme selected
    customEnabled, \* App: the "use custom palette" flag
    customPalette, \* App: the seven colour overrides
    appPhase,      \* the page: not loaded yet, running, or torn down by a render error
    storage,       \* localStorage: the four settings entries
    projectEntry,  \* localStorage: the saved template
    hostDark,      \* the host's prefers-color-scheme: dark
    dataTheme,     \* the data-theme attribute of the document element
    rootStyle,     \* the palette's custom properties on the document element
    mqListener,    \* whether a "change" listener is registered on the media query
    tab,           \* CodeTabs: the active tab
    htmlValue,     \* CodeTabs: the html text
    cssValue,      \* CodeTabs: the css text
    status,        \* CodeTabs: the status line
    pendingFormat, \* CodeTabs: the formatCurrent calls awaiting the formatter
    rafRef,        \* CodeTabs: the pending animation-frame request id, 0 for null
    rafQueue,      \* the browser's animation-frame callbacks not yet run
    timers,        \* the browser's pending setTimeout(sync, delay), by delay
    engineDoc,     \* the engine's Document
    engineCss,     \* the engine's global stylesheet
    engineSel,     \* the engine's selection
    engineFault,   \* whether the engine's commands throw
    evCount,       \* change events delivered since the last rendering frame
    syncRuns,      \* regenerations run since the Document last changed
    firstSync,     \* the texts the first of these regenerations stored
    codeOpen,      \* App: whether the code drawer, and CodeTabs in it, is mounted
    orphans,       \* callbacks still pending that an unmounted CodeTabs had armed
    orphanRuns,    \* regenerations such callbacks have run
    gapPx,         \* WebflowCanvas: the gap the layout panel shows
    parentMode,    \* WebflowCanvas: the layout mode the panel shows for the parent
    parentStyle,   \* the engine's style of the selected components' parent
    downloads,     \* what the last handler run downloaded
    thrown,        \* the exception that escaped the last handler run, or "none"
    calls,         \* the engine commands the last handler run invoked
    alerts,        \* the alerts the last handler run showed
    refused,       \* the operation the last handler run was, if it found no engine
    frameEvents,   \* change events that had been delivered when the last frame ran
    frameSyncs     \* regenerations run by the last rendering frame's callbacks

appVars == <<editor, advancedMode, jsValue, headSettings>>
themeVars ==
    <<themeChoice, customEnabled, customPalette, hostDark, dataTheme, rootStyle, mqListener>>
storeVars == <<appPhase, storage, projectEntry>>
codeVars == <<tab, htmlValue, cssValue, status>>
schedVars == <<rafRef, rafQueue, timers, evCount>>
engineVars == <<engineDoc, engineCss, engineSel>>
histVars == <<syncRuns, firstSync>>
drawerVars == <<codeOpen, orphans, orphanRuns>>
layoutVars == <<gapPx, parentMode, parentStyle>>
sideVars == <<drawerVars, layoutVars>>
outVars == <<downloads, thrown, calls, alerts, refused, frameEvents, frameSyncs>>
vars == <<appVars, themeVars, storeVars, codeVars, pendingFormat, schedVars, engineVars,
          engineFault, sideVars, histVars, outVars>>

\* useState<number>(16) of WebflowCanvas
DefaultGap == 16

\* a component no style has been added to: display, flex-direction and gap
\* unset; a gap of n px is kept as <<n, "px">>
Unstyled == [display |-> "", flexDirection |-> "", gap |-> <<>>]

\* the code drawer open with no callback of an earlier mount pending, and the
\* layout panel as its first render leaves it
SideFresh ==
    /\ codeOpen = TRUE
    /\ orphans = {}
    /\ orphanRuns = 0
    /\ gapPx = DefaultGap
    /\ parentMode = "unknown"
    /\ parentStyle = Unstyled

\* what most handlers leave alone: the theme, the stored entries, the
\* formatter's queue and the engine's health
restVars == <<themeVars, storeVars, pendingFormat, engineFault, sideVars>>

\* a handler run that downloads nothing, lets nothing escape, calls no engine
\* command, shows no alert and is no rendering frame
Quiet ==
    /\ downloads' = <<>>
    /\ thrown' = "none"
    /\ calls' = <<>>
    /\ alerts' = <<>>
    /\ refused' = "none"
    /\ frameEvents' = 0
    /\ frameSyncs' = 0

(***************************************************************************)
(* src/unnamed/part_001 (editor/sync): the reads.                          *)
(***************************************************************************)
getEditorHtml == EngineGetHtml(engineDoc)
getEditorCss == engineCss

\* whether a call of the engine command cmd throws
Throws(cmd) == cmd \in engineFault

(***************************************************************************)
(* src/src/App.tsx: exportProjectFiles.                                    *)
(***************************************************************************)
DefaultBaseName ==
    <<"v", "i", "t", "e", "-", "h", "t", "m", "l", "-", "e", "d", "i", "t", "o", "r",
      "-", "e", "x", "p", "o", "r", "t">>
DefaultPageTitle ==
    <<"V", "i", "t", "e", " ", "H", "T", "M", "L", " ", "E", "d", "i", "t", "o", "r",
      " ", "E", "x", "p", "o", "r", "t">>
DefaultJs ==
    <<"// JS exported with your document\n",
      "console.log(\"Hello from Vite HTML Editor export!\");">>
JsTexts == {DefaultJs, <<"console.log(1)">>}

DefaultHeadSettings ==
    [pageTitle |-> DefaultPageTitle, headHtml |-> <<>>, exportBaseName |-> DefaultBaseName]

\* the three properties exportProjectFiles reads, an absent one read as undefined
HeadRecord(v) == [f \in {HeadKeys[i] : i \in 1..Len(HeadKeys)} |-> Get(v, f)]

\* what reading a property of null throws
TypeError == "TypeError"

\* a plausible slip: the character class without its +, one "-" per character
ExportBase_PerChar(exportBaseName) ==
    replaceRuns(
      LET t == trim(OrElse(exportBaseName, DefaultBaseName))
      IN  [i \in 1..Len(t) |-> IF t[i] \in ForbiddenChars THEN "-" ELSE t[i]],
      WhiteSpace, <<"-">>)

\* const base = (exportBaseName || default).trim().replace(..).replace(..)
ExportBase(exportBaseName) ==
    replaceRuns(
      replaceRuns(trim(OrElse(exportBaseName, DefaultBaseName)), ForbiddenChars, <<"-">>),
      WhiteSpace, <<"-">>)

\* const pageTitle = (headSettings.pageTitle || default).trim()
ExportTitle(pageTitle) == trim(OrElse(pageTitle, DefaultPageTitle))

\* a plausible slip: the stylesheet link written before the head fragment
HtmlDocument_LinkFirst(html, pageTitle, headHtml, base) ==
    <<"<!doctype html>\n", "<html lang=\"en\">\n", "<head>\n",
      "  <meta charset=\"utf-8\" />\n",
      "  <meta name=\"viewport\" content=\"width=device-width,initial-scale=1\" />\n",
      "  <title>">> \o escapeHtml(pageTitle) \o <<"</title>\n">>
    \o <<"  <link rel=\"stylesheet\" href=\"./">> \o base \o <<".css\" />\n">>
    \o headHtml \o <<"\n">>
    \o <<"</head>\n", "<body>\n">> \o html
    \o <<"\n<script src=\"./">> \o base \o <<".js\"></script>\n", "</body>\n", "</html>">>

\* the template literal htmlDoc
HtmlDocument(html, pageTitle, headHtml, base) ==
    <<"<!doctype html>\n", "<html lang=\"en\">\n", "<head>\n",
      "  <meta charset=\"utf-8\" />\n",
      "  <meta name=\"viewport\" content=\"width=device-width,initial-scale=1\" />\n",
      "  <title>">> \o escapeHtml(pageTitle) \o <<"</title>\n">>
    \o headHtml \o <<"\n">>
    \o <<"  <link rel=\"stylesheet\" href=\"./">> \o base \o <<".css\" />\n">>
    \o <<"</head>\n", "<body>\n">> \o html
    \o <<"\n<script src=\"./">> \o base \o <<".js\"></script>\n", "</body>\n", "</html>">>

\* downloadFile(filename, content, mime): one download, as the browser sees it
downloadFile(filename, content, mime) ==
    [name |-> filename, content |-> content, mime |-> mime]

\* a plausible slip: the script downloaded before the stylesheet
ExportBundle_JsFirst(html, css, js, settings) ==
    LET base == ExportBase(settings.exportBaseName)
        htmlDoc == HtmlDocument(html, ExportTitle(settings.pageTitle),
                                OrElse(settings.headHtml, <<>>), base)
    IN  << downloadFile(base \o <<".html">>, htmlDoc, <<"text/html", ";charset=utf-8">>),
           downloadFile(base \o <<".js">>, js, <<"text/javascript", ";charset=utf-8">>),
           downloadFile(base \o <<".css">>, css, <<"text/css", ";charset=utf-8">>) >>

\* the three downloadFile calls of exportProjectFiles, in their order
ExportBundle(html, css, js, settings) ==
    LET base == ExportBase(settings.exportBaseName)
        htmlDoc == HtmlDocument(html, ExportTitle(settings.pageTitle),
                                OrElse(settings.headHtml, <<>>), base)
    IN  << downloadFile(base \o <<".html">>, htmlDoc, <<"text/html", ";charset=utf-8">>),
           downloadFile(base \o <<".css">>, css, <<"text/css", ";charset=utf-8">>),
           downloadFile(base \o <<".js">>, js, <<"text/javascript", ";charset=utf-8">>) >>

\* what exportProjectFiles does past its editor test: the downloads it
\* triggers and what it lets escape
ExportOutcome(html, css, js, settings) ==
    IF Throws("getHtml") \/ Throws("getCss")
    THEN [downloads |-> <<>>, exc |-> EngineError]
    ELSE IF IsNull(settings)
    THEN [downloads |-> <<>>, exc |-> TypeError]
    ELSE [downloads |-> ExportBundle(html, css, js, HeadRecord(settings)), exc |-> "none"]

\* a plausible slip: the stylesheet taken from the code view's css text
exportProjectFiles_FromCodeView ==
    /\ appPhase = "running"
    /\ editor # NoEditor
    /\ UNCHANGED <<appVars, codeVars, schedVars, engineVars, histVars, restVars>>
    /\ calls' = <<>>
    /\ alerts' = <<>>
    /\ refused' = "none"
    /\ frameEvents' = 0
    /\ frameSyncs' = 0
    /\ LET out == ExportOutcome(getEditorHtml, cssValue, jsValue, headSettings)
       IN  downloads' = out.downloads /\ thrown' = out.exc

\* a plausible slip: the body taken from the code view's html text
exportProjectFiles_HtmlFromCodeView ==
    /\ appPhase = "running"
    /\ editor # NoEditor
    /\ UNCHANGED <<appVars, codeVars, schedVars, engineVars, histVars, restVars>>
    /\ calls' = <<>>
    /\ alerts' = <<>>
    /\ refused' = "none"
    /\ frameEvents' = 0
    /\ frameSyncs' = 0
    /\ LET out == ExportOutcome(htmlValue, getEditorCss, jsValue, headSettings)
       IN  downloads' = out.downloads /\ thrown' = out.exc

\* a plausible slip: the sanitized base name stored back into the settings
exportProjectFiles_StoresBase ==
    /\ appPhase = "running"
    /\ editor # NoEditor
    /\ UNCHANGED <<editor, advancedMode, jsValue, codeVars, schedVars, engineVars,
                   histVars, restVars>>
    /\ headSettings' =
          With(headSettings, "exportBaseName", ExportBase(Get(headSettings, "exportBaseName")))
    /\ calls' = <<>>
    /\ alerts' = <<>>
    /\ refused' = "none"
    /\ frameEvents' = 0
    /\ frameSyncs' = 0
    /\ LET out == ExportOutcome(getEditorHtml, getEditorCss, jsValue, headSettings)
       IN  downloads' = out.downloads /\ thrown' = out.exc

\* a plausible slip: the editor test left out
exportProjectFiles_NoEditorTest ==
    /\ appPhase = "running"
    /\ UNCHANGED <<appVars, codeVars, schedVars, engineVars, histVars, restVars>>
    /\ calls' = <<>>
    /\ alerts' = <<>>
    /\ refused' = IF editor = NoEditor THEN "exportProjectFiles" ELSE "none"
    /\ frameEvents' = 0
    /\ frameSyncs' = 0
    /\ LET out == ExportOutcome(getEditorHtml, getEditorCss, jsValue, headSettings)
       IN  downloads' = out.downloads /\ thrown' = out.exc

\* the Export button's handler
exportProjectFiles ==
    /\ appPhase = "running"
    /\ UNCHANGED <<appVars, codeVars, schedVars, engineVars, histVars, restVars>>
    /\ calls' = <<>>
    /\ alerts' = <<>>
    /\ frameEvents' = 0
    /\ frameSyncs' = 0
    /\ IF editor = NoEditor
       THEN /\ refused' = "exportProjectFiles"
            /\ downloads' = <<>>
            /\ thrown' = "none"
       ELSE /\ refused' = "none"
            /\ LET out == ExportOutcome(getEditorHtml, getEditorCss, jsValue, headSettings)
               IN  downloads' = out.downloads /\ thrown' = out.exc

(***************************************************************************)
(* src/src/App.tsx: the persisted settings.  An entry of localStorage is   *)
(* <<>> when absent and <<text>> when present.                             *)
(***************************************************************************)
StorageKeys == {"theme", "head", "enabled", "palette"}
ThemeChoices == {"auto", "dark", "dim", "light"}

DefaultPalette == [f \in {PaletteKeys[i] : i \in 1..Len(PaletteKeys)} |-> <<>>]

\* localStorage.getItem(LS_THEME_KEY) ?? "auto"
InitialTheme(st) == IF st["theme"] = <<>> THEN "auto" ELSE st["theme"][1]

\* safeJsonParse(raw, fallback): the fallback for null, for the empty string
\* and for text JSON.parse rejects
safeJsonParse(raw, fallback) ==
    IF raw = <<>> \/ raw[1] = <<>> THEN fallback
    ELSE IF JsonParse(raw[1]).ok THEN JsonParse(raw[1]).value
    ELSE fallback

\* raw ? raw === "1" : false
InitialEnabled(st) ==
    IF st["enabled"] = <<>> \/ st["enabled"][1] = "" THEN FALSE ELSE st["enabled"][1] = "1"

\* what each effect hands to localStorage.setItem
Entry(k, theme, head, enabled, palette) ==
    CASE k = "theme" -> <<theme>>
      [] k = "head" -> <<JsonStringify(head, HeadKeys)>>
      [] k = "enabled" -> <<IF enabled THEN "1" ELSE "0">>
      [] k = "palette" -> <<JsonStringify(palette, PaletteKeys)>>

\* a plausible slip: one effect, run on a theme change, writing all four entries
EffectKeys_OneEffect(deps) == IF "themeChoice" \in deps THEN StorageKeys ELSE {}

\* the entries written by the effects whose dependencies are among deps, the
\* state variables a handler changed
EffectKeys(deps) ==
    (IF deps \cap {"themeChoice", "customEnabled", "customPalette"} # {} THEN {"theme"} ELSE {})
    \cup (IF "headSettings" \in deps THEN {"head"} ELSE {})
    \cup (IF "customEnabled" \in deps THEN {"enabled"} ELSE {})
    \cup (IF "customPalette" \in deps THEN {"palette"} ELSE {})

AllDeps == {"themeChoice", "headSettings", "customEnabled", "customPalette"}

getSystemTheme(dark) == IF dark THEN "dark" ELSE "light"

\* const resolved = themeChoice === "auto" ? getSystemTheme() : themeChoice
ResolveTheme(choice, dark) == IF choice = "auto" THEN getSystemTheme(dark) ELSE choice

\* document.documentElement.style with none of the palette's properties set
NoStyle == [f \in {PaletteKeys[i] : i \in 1..Len(PaletteKeys)} |-> <<>>]

\* applyCustomPaletteVars: setProperty for each entry that is truthy, the
\* other properties left as they are
applyCustomPaletteVars(style, custom) ==
    [f \in DOMAIN style |-> IF Get(custom, f) # <<>> THEN Get(custom, f) ELSE style[f]]

\* clearCustomPaletteVars: removeProperty for each of the seven
clearCustomPaletteVars(style) == [f \in DOMAIN style |-> <<>>]

\* if (customEnabled) applyCustomPaletteVars(customPalette);
\* else clearCustomPaletteVars();
ApplyPalette(style, enabled, palette) ==
    IF enabled THEN applyCustomPaletteVars(style, palette) ELSE clearCustomPaletteVars(style)

\* a plausible slip: the preference read when the effect runs, no listener
ThemeListens_Never(choice) == FALSE

\* whether the theme effect registers its listener on the media query
ThemeListens(choice) == choice = "auto"

\* The render that follows a handler's setState calls, and the effects after
\* it: the theme effect stores the choice, sets data-theme, applies the
\* palette (reading a property of it, which throws on null and tears the
\* page down before the later effects run) and registers the listener; the
\* three other effects store their entries.
CommitOver(style, theme, head, enabled, palette, deps) ==
    LET themeRuns == deps \cap {"themeChoice", "customEnabled", "customPalette"} # {}
        crash == themeRuns /\ enabled /\ IsNull(palette)
    IN  /\ themeChoice' = theme
        /\ headSettings' = head
        /\ customEnabled' = enabled
        /\ customPalette' = palette
        /\ dataTheme' = IF themeRuns THEN ResolveTheme(theme, hostDark) ELSE dataTheme
        /\ rootStyle' = IF themeRuns THEN ApplyPalette(style, enabled, palette) ELSE style
        /\ mqListener' = IF crash THEN FALSE
                         ELSE IF themeRuns THEN ThemeListens(theme) ELSE mqListener
        /\ appPhase' = IF crash THEN "crashed" ELSE "running"
        /\ thrown' = IF crash THEN TypeError ELSE "none"
        /\ storage' = [k \in StorageKeys |->
                         IF k \in (IF crash THEN {"theme"} ELSE EffectKeys(deps))
                         THEN Entry(k, theme, head, enabled, palette)
                         ELSE storage[k]]

\* a handler's setState calls committed in the page as it is
Commit(theme, head, enabled, palette, deps) ==
    CommitOver(rootStyle, theme, head, enabled, palette, deps)

\* the out variables of a handler run that changes settings, but for thrown
SettingsQuiet ==
    /\ downloads' = <<>>
    /\ calls' = <<>>
    /\ alerts' = <<>>
    /\ refused' = "none"
    /\ frameEvents' = 0
    /\ frameSyncs' = 0

\* what a handler of the settings leaves alone
settingsFrame ==
    <<editor, advancedMode, jsValue, codeVars, pendingFormat, schedVars, engineVars,
      engineFault, sideVars, histVars, projectEntry, hostDark>>

\* the settings dialog shows headSettings.pageTitle and customPalette.accent:
\* it renders unless one of the two is null
DialogRenders == ~IsNull(headSettings) /\ ~IsNull(customPalette)

\* the Settings button: the dialog's first render
openSettings ==
    /\ appPhase = "running"
    /\ SettingsQuiet
    /\ IF DialogRenders
       THEN /\ thrown' = "none"
            /\ UNCHANGED <<appVars, themeVars, storeVars, settingsFrame>>
       ELSE /\ thrown' = TypeError
            /\ appPhase' = "crashed"
            /\ mqListener' = FALSE
            /\ UNCHANGED <<appVars, themeChoice, customEnabled, customPalette, dataTheme,
                           rootStyle, storage, settingsFrame>>

\* the theme select of the top bar
setThemeChoice ==
    /\ appPhase = "running"
    /\ \E t \in ThemeChoices :
          /\ t # themeChoice
          /\ Commit(t, headSettings, customEnabled, customPalette, {"themeChoice"})
    /\ SettingsQuiet
    /\ UNCHANGED settingsFrame

\* the host's colour-scheme preference changes; the listener, when one is
\* registered, runs apply()
hostFlip ==
    /\ appPhase = "running"
    /\ hostDark' = ~hostDark
    /\ dataTheme' = IF mqListener THEN ResolveTheme(themeChoice, ~hostDark) ELSE dataTheme
    /\ rootStyle' = IF mqListener THEN ApplyPalette(rootStyle, customEnabled, customPalette)
                    ELSE rootStyle
    /\ Quiet
    /\ UNCHANGED <<appVars, themeChoice, customEnabled, customPalette, mqListener,
                   storeVars, codeVars, pendingFormat, schedVars, engineVars,
                   engineFault, sideVars, histVars>>

\* the "Use custom palette" checkbox
setCustomEnabled ==
    /\ appPhase = "running"
    /\ DialogRenders
    /\ Commit(themeChoice, headSettings, ~customEnabled, customPalette, {"customEnabled"})
    /\ SettingsQuiet
    /\ UNCHANGED settingsFrame

\* colours the palette's inputs can be given
PaletteColours == {<<>>, <<"#111111">>}
\* entries of the palette that hold a colour, at most
MaxColours == 1
\* custom properties set on the document element, at most
MaxOverrides == 1
\* the properties a style has set
Overridden(style) == {f \in DOMAIN style : style[f] # <<>>}

Coloured(palette) == Cardinality({f \in DOMAIN palette : palette[f] # <<>>})

\* one of the seven colour inputs, enabled with the palette
setPaletteColour ==
    /\ appPhase = "running"
    /\ DialogRenders
    /\ customEnabled
    /\ \E f \in DOMAIN DefaultPalette, v \in PaletteColours :
          LET palette == With(customPalette, f, v)
          IN  /\ palette # customPalette
              /\ Coloured(palette) <= MaxColours
              /\ Cardinality(Overridden(applyCustomPaletteVars(rootStyle, palette)))
                    <= MaxOverrides
              /\ Commit(themeChoice, headSettings, customEnabled, palette, {"customPalette"})
    /\ SettingsQuiet
    /\ UNCHANGED settingsFrame

\* the "Reset custom colors" button, enabled with the palette
resetCustomColours ==
    /\ appPhase = "running"
    /\ DialogRenders
    /\ customEnabled
    /\ Commit(themeChoice, headSettings, customEnabled, DefaultPalette, {"customPalette"})
    /\ SettingsQuiet
    /\ UNCHANGED settingsFrame

\* the "Disable custom palette" button
disableCustomPalette ==
    /\ appPhase = "running"
    /\ DialogRenders
    /\ Commit(themeChoice, headSettings, FALSE, DefaultPalette,
              {"customEnabled", "customPalette"})
    /\ SettingsQuiet
    /\ UNCHANGED settingsFrame

(***************************************************************************)
(* src/src/App.tsx: the settings dialog's head inputs.  An input's         *)
(* onChange hands over the whole new value; the values are reached here    *)
(* by typing a character, deleting the last one, clearing the field, or    *)
(* pasting over it.                                                        *)
(***************************************************************************)
TypedLen(s, default) == IF s = default THEN 0 ELSE Len(s)

TypedChars(settings) ==
    TypedLen(Get(settings, "pageTitle"), DefaultPageTitle)
    + Len(Get(settings, "headHtml"))
    + TypedLen(Get(settings, "exportBaseName"), DefaultBaseName)

Keystrokes(s, alphabet) ==
    {<<>>} \cup {SubSeq(s, 1, Len(s) - 1)} \cup {Append(s, c) : c \in alphabet}

\* setHeadSettings((s) => ({ ...s, field: value }))
SetHead(settings) ==
    /\ appPhase = "running"
    /\ DialogRenders
    /\ settings # headSettings
    /\ TypedChars(settings) <= MaxChars
    /\ Commit(themeChoice, settings, customEnabled, customPalette, {"headSettings"})
    /\ SettingsQuiet
    /\ UNCHANGED settingsFrame

setPageTitle ==
    \E v \in Keystrokes(Get(headSettings, "pageTitle"), TitleAlphabet) :
        SetHead(With(headSettings, "pageTitle", v))

setExportBaseName ==
    \E v \in Keystrokes(Get(headSettings, "exportBaseName"), NameAlphabet) :
        SetHead(With(headSettings, "exportBaseName", v))

setHeadHtml ==
    \E v \in Keystrokes(Get(headSettings, "headHtml"), HeadAlphabet) :
        SetHead(With(headSettings, "headHtml", v))

\* texts pasted over a head field: plain, with a quote, with a backslash
PastedTexts == {<<"a">>, <<"\"">>, <<"\\", "n">>}

pasteHeadField ==
    \E i \in 1..Len(HeadKeys), v \in PastedTexts \cup {<<>>} :
        SetHead(With(headSettings, HeadKeys[i], v))

(***************************************************************************)
(* The export pipeline on its own: an attached engine holding any of the   *)
(* small Documents, with or without a selection, a code view whose css     *)
(* text was edited and not applied, and the head settings edited freely.   *)
(***************************************************************************)
StatusReady == <<"Ready.">>
NoTexts == [html |-> <<>>, css |-> <<>>]

\* the settings of a first visit, once the effects of the first render ran
DefaultStorage ==
    [k \in StorageKeys |-> Entry(k, "auto", DefaultHeadSettings, FALSE, DefaultPalette)]

DefaultSettings ==
    /\ appPhase = "running"
    /\ themeChoice = "auto"
    /\ headSettings = DefaultHeadSettings
    /\ customEnabled = FALSE
    /\ customPalette = DefaultPalette
    /\ storage = DefaultStorage
    /\ projectEntry = <<>>
    /\ hostDark = FALSE
    /\ dataTheme = "light"
    /\ rootStyle = NoStyle
    /\ mqListener = TRUE

\* no handler has run yet
NothingObserved ==
    /\ downloads = <<>>
    /\ thrown = "none"
    /\ calls = <<>>
    /\ alerts = <<>>
    /\ refused = "none"
    /\ frameEvents = 0
    /\ frameSyncs = 0

InitExport ==
    /\ DefaultSettings
    /\ NothingObserved
    /\ editor = TheEditor
    /\ advancedMode = FALSE
    /\ jsValue \in JsTexts
    /\ tab = "html"
    /\ engineDoc \in [NodeSet -> CanvasFrags]
    /\ engineCss = StarterCss
    /\ engineSel \in {NoSelection} \cup NodeSet
    /\ engineFault = {}
    /\ SideFresh
    /\ htmlValue = EngineGetHtml(engineDoc)
    /\ cssValue \in CssTexts \ {StarterCss}
    /\ status = StatusReady
    /\ pendingFormat = <<>>
    /\ rafRef = 0
    /\ rafQueue = <<>>
    /\ timers = {}
    /\ evCount = 0
    /\ syncRuns = 1
    /\ firstSync = [html |-> EngineGetHtml(engineDoc), css |-> engineCss]

NextExport ==
    \/ setPageTitle
    \/ setExportBaseName
    \/ setHeadHtml
    \/ exportProjectFiles

SpecExport == InitExport /\ [][NextExport]_vars

(***************************************************************************)
(* src/src/code/CodeTabs.tsx: the forward sync.                            *)
(***************************************************************************)
\* regenerations counted since the Document last changed, at most
MaxSyncRuns == 2

MsgSyncFailed(cause) == <<"Sync failed: ", cause>>

\* the Document changed: the count of regenerations starts again
DocumentChanged ==
    /\ syncRuns' = 0
    /\ firstSync' = NoTexts

\* a plausible slip: the text regenerated appended to the text shown
sync_Append ==
    /\ htmlValue' = htmlValue \o getEditorHtml
    /\ cssValue' = getEditorCss
    /\ UNCHANGED status
    /\ syncRuns' = IF syncRuns < MaxSyncRuns THEN syncRuns + 1 ELSE syncRuns
    /\ firstSync' = IF syncRuns = 0
                    THEN [html |-> htmlValue \o getEditorHtml, css |-> getEditorCss]
                    ELSE firstSync

\* a plausible slip: the html text stored before the css is read
sync_HtmlFirst ==
    IF Throws("getHtml")
    THEN /\ status' = MsgSyncFailed(EngineError)
         /\ UNCHANGED <<htmlValue, cssValue, histVars>>
    ELSE IF Throws("getCss")
    THEN /\ htmlValue' = getEditorHtml
         /\ status' = MsgSyncFailed(EngineError)
         /\ UNCHANGED <<cssValue, histVars>>
    ELSE /\ htmlValue' = getEditorHtml
         /\ cssValue' = getEditorCss
         /\ UNCHANGED status
         /\ syncRuns' = IF syncRuns < MaxSyncRuns THEN syncRuns + 1 ELSE syncRuns
         /\ firstSync' = IF syncRuns = 0
                         THEN [html |-> getEditorHtml, css |-> getEditorCss]
                         ELSE firstSync

\* sync(): both reads, then both texts stored; a read that throws leaves the
\* texts and sets the status
sync ==
    IF Throws("getHtml") \/ Throws("getCss")
    THEN /\ status' = MsgSyncFailed(EngineError)
         /\ UNCHANGED <<htmlValue, cssValue, histVars>>
    ELSE /\ htmlValue' = getEditorHtml
         /\ cssValue' = getEditorCss
         /\ UNCHANGED status
         /\ syncRuns' = IF syncRuns < MaxSyncRuns THEN syncRuns + 1 ELSE syncRuns
         /\ firstSync' = IF syncRuns = 0
                         THEN [html |-> getEditorHtml, css |-> getEditorCss]
                         ELSE firstSync

\* a plausible slip: the armed flag not tested, one callback per event
scheduleSync_NoGuard(sched) ==
    [ref |-> 1, queue |-> Append(sched.queue, TheEditor)]

\* scheduleSync(): arm one animation-frame callback unless one is armed
scheduleSync(sched) ==
    IF sched.ref # 0
    THEN sched
    ELSE [ref |-> 1, queue |-> Append(sched.queue, TheEditor)]

\* the engine delivers one event of a subscribed kind to scheduleSync; while
\* CodeTabs is not mounted nothing is subscribed
Emit ==
    IF codeOpen
    THEN /\ evCount < MaxEvents
         /\ evCount' = evCount + 1
         /\ LET sched == scheduleSync([ref |-> rafRef, queue |-> rafQueue])
            IN  /\ rafRef' = sched.ref
                /\ rafQueue' = sched.queue
         /\ UNCHANGED timers
    ELSE UNCHANGED <<rafRef, rafQueue, evCount, timers>>

\* a plausible slip: the callback not clearing the armed flag
FrameCallback_FlagKept ==
    /\ UNCHANGED rafRef
    /\ sync

\* the callback scheduleSync hands to requestAnimationFrame
FrameCallback ==
    /\ rafRef' = 0
    /\ sync

\* a rendering frame: the browser runs the armed callbacks, each clearing
\* rafRef and running sync
Frame ==
    /\ appPhase = "running"
    /\ evCount > 0 \/ rafQueue # <<>>
    /\ frameEvents' = evCount
    /\ frameSyncs' = Len(rafQueue)
    /\ evCount' = 0
    /\ rafQueue' = <<>>
    /\ IF rafQueue # <<>>
       THEN FrameCallback
       ELSE UNCHANGED <<rafRef, htmlValue, cssValue, status, histVars>>
    /\ downloads' = <<>>
    /\ thrown' = "none"
    /\ calls' = <<>>
    /\ alerts' = <<>>
    /\ refused' = "none"
    /\ UNCHANGED <<appVars, tab, timers, engineVars, restVars>>

\* setTimeout(sync, 0) and setTimeout(sync, 200) of the mount effect, the
\* shorter delay first
TimerFire ==
    /\ appPhase = "running"
    /\ timers # {}
    /\ LET t == CHOOSE x \in timers : \A y \in timers : x <= y
       IN  timers' = timers \ {t}
    /\ sync
    /\ Quiet
    /\ UNCHANGED <<appVars, tab, rafRef, rafQueue, evCount, engineVars, restVars>>

\* a plausible slip: the effect running sync at once and setting no timer
onReady_OneSync ==
    /\ appPhase = "running"
    /\ editor = NoEditor
    /\ editor' = TheEditor
    /\ IF codeOpen
       THEN sync /\ timers' = {}
       ELSE UNCHANGED <<htmlValue, cssValue, status, histVars, timers>>
    /\ Quiet
    /\ UNCHANGED <<advancedMode, jsValue, headSettings, tab,
                   rafRef, rafQueue, evCount, engineVars, restVars>>

\* App.onReady and the effect of CodeTabs it triggers, if CodeTabs is
\* mounted: sync at once, two delayed syncs, and the subscriptions
onReady ==
    /\ appPhase = "running"
    /\ editor = NoEditor
    /\ editor' = TheEditor
    /\ IF codeOpen
       THEN sync /\ timers' = {0, 200}
       ELSE UNCHANGED <<htmlValue, cssValue, status, histVars, timers>>
    /\ Quiet
    /\ UNCHANGED <<advancedMode, jsValue, headSettings, tab,
                   rafRef, rafQueue, evCount, engineVars, restVars>>

(***************************************************************************)
(* src/src/App.tsx and src/src/layout/CodeDrawer.tsx: the code drawer.     *)
(* CodeDrawer renders nothing while it is closed, so closing it unmounts   *)
(* CodeTabs and opening it mounts a new one.                               *)
(***************************************************************************)
\* regenerations run by callbacks of an unmounted CodeTabs, counted up to
MaxOrphanRuns == 2

\* the callbacks CodeTabs has pending with the browser
PendingCallbacks ==
    (IF rafQueue # <<>> THEN {"frame"} ELSE {})
    \cup {IF t = 0 THEN "timer0" ELSE "timer200" : t \in timers}

\* "Hide Code", or the drawer's close button: CodeTabs unmounts; the effect's
\* cleanup takes the eight subscriptions off and cancels neither the
\* animation-frame request nor the two timers; the component's state and
\* its ref are gone, the next mount starts from the initializers
hideCode ==
    /\ appPhase = "running"
    /\ codeOpen
    /\ codeOpen' = FALSE
    /\ orphans' = orphans \cup PendingCallbacks
    /\ tab' = "html"
    /\ htmlValue' = <<>>
    /\ cssValue' = <<>>
    /\ status' = StatusReady
    /\ pendingFormat' = <<>>
    /\ rafRef' = 0
    /\ rafQueue' = <<>>
    /\ timers' = {}
    /\ Quiet
    /\ UNCHANGED <<appVars, themeVars, storeVars, engineVars, engineFault, evCount,
                   orphanRuns, layoutVars, histVars>>

\* "Show Code": a new CodeTabs mounts and, an engine being attached, its
\* effect runs sync, sets the two timers and subscribes
showCode ==
    /\ appPhase = "running"
    /\ ~codeOpen
    /\ codeOpen' = TRUE
    /\ IF editor # NoEditor
       THEN sync /\ timers' = {0, 200}
       ELSE UNCHANGED <<htmlValue, cssValue, status, histVars, timers>>
    /\ Quiet
    /\ UNCHANGED <<appVars, themeVars, storeVars, tab, pendingFormat, rafRef, rafQueue,
                   evCount, engineVars, engineFault, orphans, orphanRuns, layoutVars>>

\* a callback of an unmounted CodeTabs runs: sync() reads the engine's html
\* and css; the setters of the unmounted component store nothing
OrphanFires ==
    /\ appPhase = "running"
    /\ \E o \in orphans : orphans' = orphans \ {o}
    /\ orphanRuns' = IF orphanRuns < MaxOrphanRuns THEN orphanRuns + 1 ELSE orphanRuns
    /\ calls' = <<"getHtml", "getCss">>
    /\ downloads' = <<>>
    /\ thrown' = "none"
    /\ alerts' = <<>>
    /\ refused' = "none"
    /\ frameEvents' = 0
    /\ frameSyncs' = 0
    /\ UNCHANGED <<appVars, themeVars, storeVars, codeVars, pendingFormat, schedVars,
                   engineVars, engineFault, codeOpen, layoutVars, histVars>>

(***************************************************************************)
(* The canvas: the engine changes its Document and tells its subscribers.  *)
(***************************************************************************)
\* src/src/canvas/WebflowCanvas.tsx: the layout panel's helpers
normalizeLayoutMode(display) ==
    IF display = "" THEN "unknown"
    ELSE IF display \in {"flex", "inline-flex"} THEN "flex"
    ELSE IF display \in {"grid", "inline-grid"} THEN "grid"
    ELSE IF display \in {"block", "inline", "inline-block"} THEN "block"
    ELSE "unknown"

Max2(a, b) == IF a >= b THEN a ELSE b
Min2(a, b) == IF a <= b THEN a ELSE b
clamp(n, min, max) == Max2(min, Min2(max, n))

\* `${n}px`
PxText(n) == <<n, "px">>

\* the first number in the text, the fallback when there is none
parsePx(v, fallback) == IF v = <<>> THEN fallback ELSE v[1]

\* refreshSelectionInfo with sel selected, its parent styled style and shown
\* the gap the panel would show otherwise: no selection leaves the gap alone
\* and shows the mode "unknown"; a selection shows the parent's mode and gap
refreshSelectionInfo(sel, style, shown) ==
    IF sel = NoSelection
    THEN /\ parentMode' = "unknown"
         /\ gapPx' = shown
    ELSE /\ parentMode' = normalizeLayoutMode(style.display)
         /\ gapPx' = clamp(parsePx(style.gap, DefaultGap), 0, 80)

\* parent.addStyle(styles): the properties given replace the parent's
addStyle(style, styles) ==
    [f \in DOMAIN style |-> IF f \in DOMAIN styles THEN styles[f] ELSE style[f]]

\* applyParentStyles, shown being the gap the handler has set so far: without
\* a selection nothing happens; with one the parent takes the styles, the
\* engine tells its subscribers, and the panel is refreshed
applyParentStyles(styles, shown) ==
    IF engineSel = NoSelection
    THEN /\ gapPx' = shown
         /\ UNCHANGED <<parentMode, parentStyle, schedVars, histVars>>
    ELSE /\ parentStyle' = addStyle(parentStyle, styles)
         /\ refreshSelectionInfo(engineSel, addStyle(parentStyle, styles), shown)
         /\ Emit
         /\ DocumentChanged

\* the styles setParentFlex applies: the gap is the gapPx of the render the
\* handler was created in
FlexStyles(dir) == [display |-> "flex", flexDirection |-> dir, gap |-> PxText(gapPx)]

\* the styles setParentGrid applies
GridStyles == [display |-> "grid", gap |-> PxText(gapPx)]

\* what a handler of the layout panel leaves alone
layoutFrame ==
    <<appVars, codeVars, engineVars, themeVars, storeVars, pendingFormat, engineFault,
      drawerVars>>

\* the "Row" and "Column" buttons
setParentFlex ==
    /\ appPhase = "running"
    /\ editor # NoEditor
    /\ \E dir \in {"row", "column"} : applyParentStyles(FlexStyles(dir), gapPx)
    /\ Quiet
    /\ UNCHANGED layoutFrame

\* the "Grid" buttons
setParentGrid ==
    /\ appPhase = "running"
    /\ editor # NoEditor
    /\ applyParentStyles(GridStyles, gapPx)
    /\ Quiet
    /\ UNCHANGED layoutFrame

\* values the gap slider gives: 0 to 80 in steps of 2
GapInputs == {0, 2, 40, 80}

\* the gap slider moved to nextGap: setGapPx(g), then either setParentFlex("row")
\* or applyParentStyles({gap})
setGap(nextGap) ==
    LET g == clamp(nextGap, 0, 80)
    IN  /\ appPhase = "running"
        /\ editor # NoEditor
        /\ IF parentMode # "flex" /\ parentMode # "grid"
           THEN applyParentStyles(FlexStyles("row"), g)
           ELSE applyParentStyles([gap |-> PxText(g)], g)
        /\ Quiet
        /\ UNCHANGED layoutFrame

\* the gap slider
slideGap == \E n \in GapInputs : n # gapPx /\ setGap(n)

\* a node's content edited on the canvas (component:update)
CanvasEdit ==
    /\ appPhase = "running"
    /\ editor # NoEditor
    /\ \E n \in NodeSet, frag \in CanvasFrags :
          /\ engineDoc[n] # frag
          /\ engineDoc' = [engineDoc EXCEPT ![n] = frag]
    /\ Emit
    /\ DocumentChanged
    /\ Quiet
    /\ UNCHANGED <<appVars, codeVars, engineCss, engineSel, restVars>>

\* a style edited in the style manager (style:property:update)
CanvasStyle ==
    /\ appPhase = "running"
    /\ editor # NoEditor
    /\ \E c \in CssTexts :
          /\ engineCss # c
          /\ engineCss' = c
    /\ Emit
    /\ DocumentChanged
    /\ Quiet
    /\ UNCHANGED <<appVars, codeVars, engineDoc, engineSel, restVars>>

\* a node clicked on the canvas (component:selected)
SelectComponent ==
    /\ appPhase = "running"
    /\ editor # NoEditor
    /\ \E n \in NodeSet :
          /\ engineSel # n
          /\ engineSel' = n
          /\ refreshSelectionInfo(n, parentStyle, gapPx)
    /\ Emit
    /\ Quiet
    /\ UNCHANGED <<appVars, codeVars, engineDoc, engineCss, histVars, themeVars, storeVars,
                   pendingFormat, engineFault, drawerVars, parentStyle>>

\* the selection dropped (component:deselected, a kind CodeTabs does not subscribe to)
Deselect ==
    /\ appPhase = "running"
    /\ editor # NoEditor
    /\ engineSel # NoSelection
    /\ engineSel' = NoSelection
    /\ refreshSelectionInfo(NoSelection, parentStyle, gapPx)
    /\ Quiet
    /\ UNCHANGED <<appVars, codeVars, schedVars, engineDoc, engineCss, histVars, themeVars,
                   storeVars, pendingFormat, engineFault, drawerVars, parentStyle>>

\* the engine's commands start to throw (the engine torn down under the
\* application, or failing inside): the case sync() catches
engineFails ==
    /\ appPhase = "running"
    /\ editor # NoEditor
    /\ engineFault = {}
    /\ \E cmds \in SUBSET EngineCommands : cmds # {} /\ engineFault' = cmds
    /\ Quiet
    /\ UNCHANGED <<appVars, themeVars, storeVars, codeVars, pendingFormat, schedVars,
                   engineVars, sideVars, histVars>>

(***************************************************************************)
(* src/src/App.tsx and src/src/code/CodeTabs.tsx: the user's controls.     *)
(***************************************************************************)
\* the "Advanced: ON/OFF" button
toggleAdvancedMode ==
    /\ appPhase = "running"
    /\ advancedMode' = ~advancedMode
    /\ Quiet
    /\ UNCHANGED <<editor, jsValue, headSettings, codeVars, schedVars, engineVars,
                   histVars, restVars>>

\* the three tab buttons
setTab ==
    /\ appPhase = "running"
    /\ codeOpen
    /\ \E t \in {"html", "css", "js"} :
          /\ t # tab
          /\ tab' = t
    /\ Quiet
    /\ UNCHANGED <<appVars, htmlValue, cssValue, status, schedVars, engineVars,
                   histVars, restVars>>

\* markup the user can type into the html tab
EditHtmlTexts == {<<"b">>, <<"<bad">>}

\* Monaco's onChange: the widget is read-only unless advanced mode is on
setValue ==
    /\ appPhase = "running"
    /\ codeOpen
    /\ advancedMode
    /\ \/ /\ tab = "html"
          /\ \E v \in EditHtmlTexts : v # htmlValue /\ htmlValue' = v
          /\ UNCHANGED <<cssValue, jsValue>>
       \/ /\ tab = "css"
          /\ \E v \in CssTexts : v # cssValue /\ cssValue' = v
          /\ UNCHANGED <<htmlValue, jsValue>>
       \/ /\ tab = "js"
          /\ \E v \in JsTexts : v # jsValue /\ jsValue' = v
          /\ UNCHANGED <<htmlValue, cssValue>>
    /\ Quiet
    /\ UNCHANGED <<editor, advancedMode, headSettings, tab, status, schedVars, engineVars,
                   histVars, restVars>>

(***************************************************************************)
(* src/src/code/CodeTabs.tsx: formatCurrent.  The formatter (prettier) is  *)
(* an external collaborator: a transform of white space only, the same on *)
(* its own output, that rejects malformed text.                            *)
(***************************************************************************)
\* formatCurrent calls awaiting the formatter, at most
MaxPending == 1

MsgFormatted == <<"Formatted.">>
MsgFormatFailed(cause) == <<"Format failed: ", cause>>
SyntaxError == "SyntaxError"

\* text the formatter's parser rejects
Unformattable(text) == \E i \in 1..Len(text) : text[i] \in {"<bad", "{bad", "(bad"}

\* prettier.format(text): white-space runs become one space, the text ends
\* with one line feed
PrettierFormat(text) ==
    LET body == trim(replaceRuns(text, WhiteSpace, <<" ">>))
    IN  IF body = <<>> THEN <<>> ELSE body \o <<"\n">>

\* the text of tab t
TextOf(t) == IF t = "html" THEN htmlValue ELSE IF t = "css" THEN cssValue ELSE jsValue

\* a plausible slip: a rejected text cleared
FormatResult_ClearsOnFailure(call) ==
    IF Unformattable(call.text)
    THEN [status |-> MsgFormatFailed(SyntaxError), replace |-> TRUE, text |-> <<>>]
    ELSE [status |-> MsgFormatted, replace |-> TRUE, text |-> trim(PrettierFormat(call.text))]

\* what formatCurrent does once the formatter has answered its call: the
\* status, and the text it stores for the call's tab
FormatResult(call) ==
    IF Unformattable(call.text)
    THEN [status |-> MsgFormatFailed(SyntaxError), replace |-> FALSE, text |-> call.text]
    ELSE [status |-> MsgFormatted, replace |-> TRUE, text |-> trim(PrettierFormat(call.text))]

\* the Format button: formatCurrent up to its await
formatCurrent ==
    /\ appPhase = "running"
    /\ codeOpen
    /\ Len(pendingFormat) < MaxPending
    /\ pendingFormat' = Append(pendingFormat, [tab |-> tab, text |-> TextOf(tab)])
    /\ Quiet
    /\ UNCHANGED <<appVars, themeVars, storeVars, codeVars, schedVars, engineVars,
                   engineFault, sideVars, histVars>>

\* the formatter answers one call: formatCurrent from its await on
formatSettles ==
    /\ appPhase = "running"
    /\ \E i \in 1..Len(pendingFormat) :
          LET call == pendingFormat[i]
              res == FormatResult(call)
          IN  /\ pendingFormat' = SubSeq(pendingFormat, 1, i - 1)
                                  \o SubSeq(pendingFormat, i + 1, Len(pendingFormat))
              /\ status' = res.status
              /\ htmlValue' = IF res.replace /\ call.tab = "html" THEN res.text ELSE htmlValue
              /\ cssValue' = IF res.replace /\ call.tab = "css" THEN res.text ELSE cssValue
              /\ jsValue' = IF res.replace /\ call.tab = "js" THEN res.text ELSE jsValue
    /\ Quiet
    /\ UNCHANGED <<editor, advancedMode, headSettings, themeVars, storeVars, tab,
                   schedVars, engineVars, engineFault, sideVars, histVars>>

(***************************************************************************)
(* src/unnamed/part_001 (editor/sync): the reverse sync.                   *)
(***************************************************************************)
MsgEnableAdvanced == <<"Enable Advanced Editing Mode to apply changes.">>
MsgAppliedCss == <<"Applied CSS globally.">>
MsgNoSelection ==
    <<"No component selected. Click an element on the canvas, then apply HTML.">>
MsgAppliedHtml == <<"Applied HTML to the selected component.">>
MsgJsSaved == <<"JS saved for export.">>
MsgFailedHtml(cause) == <<"Failed to apply HTML: ", cause>>

\* editor.setStyle(css): the global stylesheet replaced by css
EngineSetStyle(css) == css

\* a plausible slip: the rules added to the stylesheet in place
applyGlobalCss_Merge(css) == engineCss \o css

\* applyGlobalCss(editor, css): the stylesheet it leaves
applyGlobalCss(css) == EngineSetStyle(css)

\* a plausible slip: the set-children call made outside the try block
applyHtmlToSelected_NoCatch(doc, sel, html) ==
    IF sel = NoSelection
    THEN [ok |-> FALSE, message |-> MsgNoSelection, doc |-> doc,
          calls |-> <<>>, exc |-> "none"]
    ELSE LET r == EngineSetChildren(doc, sel, html)
         IN  IF r.threw
             THEN [ok |-> FALSE, message |-> <<>>, doc |-> r.doc,
                   calls |-> <<"components">>, exc |-> r.cause]
             ELSE [ok |-> TRUE, message |-> MsgAppliedHtml, doc |-> r.doc,
                   calls |-> <<"components">>, exc |-> "none"]

\* a plausible slip: the selection not tested, the first node taken instead
applyHtmlToSelected_NoSelectionTest(doc, sel, html) ==
    LET target == IF sel = NoSelection THEN NodeOrder[1] ELSE sel
        r == EngineSetChildren(doc, target, html)
    IN  IF r.threw
        THEN [ok |-> FALSE, message |-> MsgFailedHtml(r.cause), doc |-> r.doc,
              calls |-> <<"components">>, exc |-> "none"]
        ELSE [ok |-> TRUE, message |-> MsgAppliedHtml, doc |-> r.doc,
              calls |-> <<"components">>, exc |-> "none"]

\* applyHtmlToSelected(editor, html): what it returns (ok, message), the
\* Document it leaves, the engine commands it invoked and what it lets escape
applyHtmlToSelected(doc, sel, html) ==
    IF sel = NoSelection
    THEN [ok |-> FALSE, message |-> MsgNoSelection, doc |-> doc,
          calls |-> <<>>, exc |-> "none"]
    ELSE LET r == EngineSetChildren(doc, sel, html)
         IN  IF r.threw
             THEN [ok |-> FALSE, message |-> MsgFailedHtml(r.cause), doc |-> r.doc,
                   calls |-> <<"components">>, exc |-> "none"]
             ELSE [ok |-> TRUE, message |-> MsgAppliedHtml, doc |-> r.doc,
                   calls |-> <<"components">>, exc |-> "none"]

(***************************************************************************)
(* src/src/code/CodeTabs.tsx: applyEdits.                                  *)
(***************************************************************************)
\* a plausible slip: the js tab's Apply emptying the js text it acknowledged
ApplyByTab_JsCleared(t) ==
    IF t = "css"
    THEN [status |-> MsgAppliedCss, doc |-> engineDoc, css |-> applyGlobalCss(cssValue),
          js |-> jsValue, calls |-> <<"setStyle">>, exc |-> "none", changed |-> TRUE]
    ELSE IF t = "html"
    THEN LET res == applyHtmlToSelected(engineDoc, engineSel, htmlValue)
         IN  [status |-> IF res.exc = "none" THEN res.message ELSE status,
              doc |-> res.doc, css |-> engineCss, js |-> jsValue,
              calls |-> res.calls, exc |-> res.exc, changed |-> res.ok]
    ELSE [status |-> MsgJsSaved, doc |-> engineDoc, css |-> engineCss,
          js |-> <<>>,
          calls |-> <<>>, exc |-> "none", changed |-> FALSE]

\* the branches of applyEdits below the advanced-mode test: the status it
\* sets (kept when an exception escapes first), the Document, the stylesheet
\* and the js text it leaves, the engine commands invoked, whether the
\* engine changed
ApplyByTab(t) ==
    IF t = "css"
    THEN IF Throws("setStyle")
         THEN [status |-> status, doc |-> engineDoc, css |-> engineCss, js |-> jsValue,
               calls |-> <<"setStyle">>, exc |-> EngineError, changed |-> FALSE]
         ELSE [status |-> MsgAppliedCss, doc |-> engineDoc, css |-> applyGlobalCss(cssValue),
               js |-> jsValue, calls |-> <<"setStyle">>, exc |-> "none", changed |-> TRUE]
    ELSE IF t = "html"
    THEN LET res == applyHtmlToSelected(engineDoc, engineSel, htmlValue)
         IN  [status |-> IF res.exc = "none" THEN res.message ELSE status,
              doc |-> res.doc, css |-> engineCss, js |-> jsValue,
              calls |-> res.calls, exc |-> res.exc, changed |-> res.ok]
    ELSE [status |-> MsgJsSaved, doc |-> engineDoc, css |-> engineCss, js |-> jsValue,
          calls |-> <<>>, exc |-> "none", changed |-> FALSE]

\* a plausible slip: the advanced-mode test left out
ApplyOutcome_NoModeTest(advanced, t) == ApplyByTab(t)

\* applyEdits past its editor test
ApplyOutcome(advanced, t) ==
    IF ~advanced
    THEN [status |-> MsgEnableAdvanced, doc |-> engineDoc, css |-> engineCss, js |-> jsValue,
          calls |-> <<>>, exc |-> "none", changed |-> FALSE]
    ELSE ApplyByTab(t)

\* the Apply button
applyEdits ==
    /\ appPhase = "running"
    /\ codeOpen
    /\ UNCHANGED <<editor, advancedMode, headSettings, tab, htmlValue, cssValue,
                   engineSel, restVars>>
    /\ downloads' = <<>>
    /\ alerts' = <<>>
    /\ frameEvents' = 0
    /\ frameSyncs' = 0
    /\ IF editor = NoEditor
       THEN /\ refused' = "applyEdits"
            /\ calls' = <<>>
            /\ thrown' = "none"
            /\ UNCHANGED <<jsValue, status, engineDoc, engineCss, schedVars, histVars>>
       ELSE /\ refused' = "none"
            /\ LET out == ApplyOutcome(advancedMode, tab)
               IN  /\ \A n \in NodeSet : Len(out.doc[n]) <= MaxContentLen
                   /\ status' = out.status
                   /\ engineDoc' = out.doc
                   /\ engineCss' = out.css
                   /\ jsValue' = out.js
                   /\ calls' = out.calls
                   /\ thrown' = out.exc
                   /\ IF out.changed
                      THEN Emit /\ DocumentChanged
                      ELSE UNCHANGED <<schedVars, histVars>>

(***************************************************************************)
(* src/src/App.tsx: saveTemplate, loadTemplate, clearProject.  The saved   *)
(* entry is the JSON object of saveTemplate, kept as a record of the JSON  *)
(* texts of its members; its data member is the engine's project data,     *)
(* the Document and the stylesheet.  savedAt, which nothing reads, is left *)
(* out.                                                                    *)
(***************************************************************************)
MsgSaved == <<"Template saved (localStorage).">>
MsgNoTemplate == <<"No saved template found.">>
MsgLoaded == <<"Template loaded.">>
MsgLoadFailed(cause) == <<"Failed to load template: ", cause>>
MsgCleared == <<"Cleared.">>

\* the text of a theme choice, and the JSON text of a boolean
ThemeText(theme) == IF theme = "" THEN <<>> ELSE <<theme>>
JsonBoolean(b) == IF b THEN <<"t", "r", "u", "e">> ELSE <<"f", "a", "l", "s", "e">>

\* the Document clearProject sets
ClearedDoc == [n \in NodeSet |-> <<"New Project">>]

\* what a handler of the top bar leaves behind when it finds no engine
Refuses(op) ==
    /\ refused' = op
    /\ downloads' = <<>>
    /\ thrown' = "none"
    /\ calls' = <<>>
    /\ alerts' = <<>>
    /\ frameEvents' = 0
    /\ frameSyncs' = 0

\* the out variables of a handler run that shows the alert msg
Alerts(msg) ==
    /\ alerts' = <<msg>>
    /\ refused' = "none"
    /\ downloads' = <<>>
    /\ calls' = <<>>
    /\ frameEvents' = 0
    /\ frameSyncs' = 0

\* the Save button
saveTemplate ==
    /\ appPhase = "running"
    /\ UNCHANGED <<appVars, themeVars, appPhase, storage, codeVars, pendingFormat,
                   schedVars, engineVars, engineFault, sideVars, histVars>>
    /\ IF editor = NoEditor
       THEN Refuses("saveTemplate") /\ UNCHANGED projectEntry
       ELSE /\ projectEntry' =
                  << [data |-> [doc |-> engineDoc, css |-> engineCss],
                      jsValue |-> JsonQuote(jsValue),
                      headSettings |-> JsonStringify(headSettings, HeadKeys),
                      themeChoice |-> JsonQuote(ThemeText(themeChoice)),
                      customEnabled |-> JsonBoolean(customEnabled),
                      customPalette |-> JsonStringify(customPalette, PaletteKeys)] >>
            /\ Alerts(MsgSaved)
            /\ thrown' = "none"

\* project data editor.loadProjectData accepts: a project object; on
\* anything else the engine throws
Loadable(data) == "doc" \in DOMAIN data

\* loadTemplate's try block with the js text set only when it is truthy
LoadParsed_JsTruthy(entry) ==
    LET js == JsonReadString(entry.jsValue, 2, <<>>)
        head == JsonParse(entry.headSettings)
        theme == JsonReadString(entry.themeChoice, 2, <<>>)
        palette == JsonParse(entry.customPalette)
        enabled == entry.customEnabled = JsonBoolean(TRUE)
        newHead == IF IsNull(head.value) THEN headSettings ELSE head.value
        newTheme == IF theme.value = <<>> THEN themeChoice ELSE theme.value[1]
        newPalette == IF IsNull(palette.value) THEN customPalette ELSE palette.value
        deps == (IF newHead # headSettings THEN {"headSettings"} ELSE {})
                \cup (IF newTheme # themeChoice THEN {"themeChoice"} ELSE {})
                \cup (IF enabled # customEnabled THEN {"customEnabled"} ELSE {})
                \cup (IF newPalette # customPalette THEN {"customPalette"} ELSE {})
    IN  IF js.ok /\ head.ok /\ theme.ok /\ palette.ok /\ Loadable(entry.data)
        THEN /\ engineDoc' = entry.data.doc
             /\ engineCss' = entry.data.css
             /\ engineSel' = NoSelection
             /\ Emit
             /\ DocumentChanged
             /\ jsValue' = IF js.value = <<>> THEN jsValue ELSE js.value
             /\ Commit(newTheme, newHead, enabled, newPalette, deps)
             /\ Alerts(MsgLoaded)
        ELSE /\ Alerts(MsgLoadFailed(IF js.ok /\ head.ok /\ theme.ok /\ palette.ok
                                     THEN EngineError ELSE SyntaxError))
             /\ thrown' = "none"
             /\ UNCHANGED <<jsValue, headSettings, themeChoice, customEnabled, customPalette,
                            dataTheme, rootStyle, mqListener, appPhase, storage, schedVars,
                            engineVars,
                            histVars>>

\* the state loadTemplate sets from the entry: JSON.parse, then
\* editor.loadProjectData, then each setter whose test the parsed member
\* passes; text JSON.parse rejects, or data the engine throws on, changes
\* nothing
LoadParsed(entry) ==
    LET js == JsonReadString(entry.jsValue, 2, <<>>)
        head == JsonParse(entry.headSettings)
        theme == JsonReadString(entry.themeChoice, 2, <<>>)
        palette == JsonParse(entry.customPalette)
        enabled == entry.customEnabled = JsonBoolean(TRUE)
        newHead == IF IsNull(head.value) THEN headSettings ELSE head.value
        newTheme == IF theme.value = <<>> THEN themeChoice ELSE theme.value[1]
        newPalette == IF IsNull(palette.value) THEN customPalette ELSE palette.value
        deps == (IF newHead # headSettings THEN {"headSettings"} ELSE {})
                \cup (IF newTheme # themeChoice THEN {"themeChoice"} ELSE {})
                \cup (IF enabled # customEnabled THEN {"customEnabled"} ELSE {})
                \cup (IF newPalette # customPalette THEN {"customPalette"} ELSE {})
    IN  IF js.ok /\ head.ok /\ theme.ok /\ palette.ok /\ Loadable(entry.data)
        THEN /\ engineDoc' = entry.data.doc
             /\ engineCss' = entry.data.css
             /\ engineSel' = NoSelection
             /\ Emit
             /\ DocumentChanged
             /\ jsValue' = js.value
             /\ Commit(newTheme, newHead, enabled, newPalette, deps)
             /\ Alerts(MsgLoaded)
        ELSE /\ Alerts(MsgLoadFailed(IF js.ok /\ head.ok /\ theme.ok /\ palette.ok
                                     THEN EngineError ELSE SyntaxError))
             /\ thrown' = "none"
             /\ UNCHANGED <<jsValue, headSettings, themeChoice, customEnabled, customPalette,
                            dataTheme, rootStyle, mqListener, appPhase, storage, schedVars,
                            engineVars,
                            histVars>>

\* the Load button
loadTemplate ==
    /\ appPhase = "running"
    /\ UNCHANGED <<editor, advancedMode, codeVars, pendingFormat, engineFault, sideVars,
                   projectEntry, hostDark>>
    /\ IF editor = NoEditor
       THEN /\ Refuses("loadTemplate")
            /\ UNCHANGED <<jsValue, headSettings, themeChoice, customEnabled, customPalette,
                           dataTheme, rootStyle, mqListener, appPhase, storage, schedVars,
                            engineVars,
                           histVars>>
       ELSE IF projectEntry = <<>>
       THEN /\ Alerts(MsgNoTemplate)
            /\ thrown' = "none"
            /\ UNCHANGED <<jsValue, headSettings, themeChoice, customEnabled, customPalette,
                           dataTheme, rootStyle, mqListener, appPhase, storage, schedVars,
                            engineVars,
                           histVars>>
       ELSE LoadParsed(projectEntry[1])

\* the Clear button
clearProject ==
    /\ appPhase = "running"
    /\ UNCHANGED <<appVars, themeVars, storeVars, codeVars, pendingFormat, engineFault,
                   sideVars>>
    /\ IF editor = NoEditor
       THEN Refuses("clearProject") /\ UNCHANGED <<schedVars, engineVars, histVars>>
       ELSE /\ engineDoc' = ClearedDoc
            /\ engineCss' = StarterCss
            /\ engineSel' = NoSelection
            /\ Emit
            /\ DocumentChanged
            /\ Alerts(MsgCleared)
            /\ thrown' = "none"

(***************************************************************************)
(* The code view and the canvas, from the application's start.             *)
(***************************************************************************)
\* the page as its first render leaves it, the settings apart
FirstRender ==
    /\ editor = NoEditor
    /\ advancedMode = FALSE
    /\ jsValue = DefaultJs
    /\ tab = "html"
    /\ htmlValue = <<>>
    /\ cssValue = <<>>
    /\ status = StatusReady
    /\ pendingFormat = <<>>
    /\ rafRef = 0
    /\ rafQueue = <<>>
    /\ timers = {}
    /\ engineDoc = StarterDoc
    /\ engineCss = StarterCss
    /\ engineSel = NoSelection
    /\ engineFault = {}
    /\ SideFresh
    /\ evCount = 0
    /\ syncRuns = 0
    /\ firstSync = NoTexts

Init ==
    /\ DefaultSettings
    /\ NothingObserved
    /\ FirstRender

Next ==
    \/ onReady
    \/ CanvasEdit
    \/ CanvasStyle
    \/ SelectComponent
    \/ Deselect
    \/ Frame
    \/ TimerFire
    \/ toggleAdvancedMode
    \/ setTab
    \/ setValue
    \/ applyEdits

Spec == Init /\ [][Next]_vars

(***************************************************************************)
(* The persisted settings, from a page load that finds anything in         *)
(* localStorage: entries absent, entries the application wrote, and        *)
(* entries it cannot have written.                                         *)
(***************************************************************************)
NullText == <<"n", "u", "l", "l">>
StoredThemes == {<<>>, <<"dark">>, <<"neon">>}
StoredHeads ==
    {<<>>, <<NullText>>, <<<<"5">>>>, <<<<"{">>>>, <<<<>>>>,
     <<JsonStringify(DefaultHeadSettings, HeadKeys)>>}
StoredFlags == {<<>>, <<"1">>, <<"yes">>}
StoredPalettes == {<<>>, <<NullText>>, <<<<"{">>>>}

\* a page load: every useState initializer, the first render and its effects
PageLoads ==
    /\ editor' = NoEditor
    /\ advancedMode' = FALSE
    /\ jsValue' = DefaultJs
    /\ tab' = "html"
    /\ htmlValue' = <<>>
    /\ cssValue' = <<>>
    /\ status' = StatusReady
    /\ pendingFormat' = <<>>
    /\ rafRef' = 0
    /\ rafQueue' = <<>>
    /\ timers' = {}
    /\ engineDoc' = StarterDoc
    /\ engineCss' = StarterCss
    /\ engineSel' = NoSelection
    /\ engineFault' = {}
    /\ codeOpen' = TRUE
    /\ orphans' = {}
    /\ orphanRuns' = 0
    /\ gapPx' = DefaultGap
    /\ parentMode' = "unknown"
    /\ parentStyle' = Unstyled
    /\ evCount' = 0
    /\ DocumentChanged
    /\ SettingsQuiet
    /\ CommitOver(NoStyle,
                  InitialTheme(storage),
                  safeJsonParse(storage["head"], DefaultHeadSettings),
                  InitialEnabled(storage),
                  safeJsonParse(storage["palette"], DefaultPalette),
                  AllDeps)
    /\ UNCHANGED <<projectEntry, hostDark>>

\* the first visit of the page
startApp ==
    /\ appPhase = "off"
    /\ PageLoads

\* the page reloaded
reload ==
    /\ appPhase # "off"
    /\ PageLoads

\* the page not loaded yet: no state of the application, no attribute
BeforeLoad ==
    /\ appPhase = "off"
    /\ themeChoice = "auto"
    /\ headSettings = DefaultHeadSettings
    /\ customEnabled = FALSE
    /\ customPalette = DefaultPalette
    /\ projectEntry = <<>>
    /\ dataTheme = ""
    /\ rootStyle = NoStyle
    /\ mqListener = FALSE

InitStartup ==
    /\ NothingObserved
    /\ FirstRender
    /\ BeforeLoad
    /\ \E t \in StoredThemes, h \in StoredHeads, e \in StoredFlags, c \in StoredPalettes :
          storage = [k \in StorageKeys |->
                       CASE k = "theme" -> t
                         [] k = "head" -> h
                         [] k = "enabled" -> e
                         [] k = "palette" -> c]
    /\ hostDark \in BOOLEAN

NextStartup ==
    \/ startApp
    \/ reload
    \/ onReady
    \/ openSettings
    \/ hostFlip
    \/ exportProjectFiles

SpecStartup == InitStartup /\ [][NextStartup]_vars

(***************************************************************************)
(* The persisted settings in use: a first visit, or a visit that finds     *)
(* what an earlier one stored, then the settings changed at will and the   *)
(* page reloaded.                                                          *)
(***************************************************************************)
AbsentStorage == [k \in StorageKeys |-> <<>>]
EarlierStorage ==
    [k \in StorageKeys |->
       Entry(k, "dim", With(DefaultHeadSettings, "headHtml", <<"\"">>), TRUE, DefaultPalette)]

InitSettings ==
    /\ NothingObserved
    /\ FirstRender
    /\ BeforeLoad
    /\ storage \in {AbsentStorage, EarlierStorage}
    /\ hostDark = FALSE

NextSettings ==
    \/ startApp
    \/ reload
    \/ setThemeChoice
    \/ hostFlip
    \/ setCustomEnabled
    \/ setPaletteColour
    \/ resetCustomColours
    \/ disableCustomPalette
    \/ pasteHeadField

SpecSettings == InitSettings /\ [][NextSettings]_vars

(***************************************************************************)
(* The top bar and the code view's Apply, from the application's start,    *)
(* before and after the engine is attached.                                *)
(***************************************************************************)
NextShell ==
    \/ onReady
    \/ toggleAdvancedMode
    \/ setTab
    \/ CanvasEdit
    \/ Frame
    \/ applyEdits
    \/ exportProjectFiles
    \/ saveTemplate
    \/ loadTemplate
    \/ clearProject

SpecShell == Init /\ [][NextShell]_vars

(***************************************************************************)
(* The reverse sync and the export with an engine whose commands may       *)
(* start to throw.                                                         *)
(***************************************************************************)
InitFault ==
    /\ DefaultSettings
    /\ NothingObserved
    /\ editor = TheEditor
    /\ advancedMode = TRUE
    /\ jsValue = DefaultJs
    /\ tab = "html"
    /\ htmlValue = EngineGetHtml(StarterDoc)
    /\ cssValue = StarterCss
    /\ status = StatusReady
    /\ pendingFormat = <<>>
    /\ rafRef = 0
    /\ rafQueue = <<>>
    /\ timers = {}
    /\ engineDoc = StarterDoc
    /\ engineCss = StarterCss
    /\ engineSel = NoSelection
    /\ engineFault = {}
    /\ SideFresh
    /\ evCount = 0
    /\ syncRuns = 1
    /\ firstSync = [html |-> EngineGetHtml(StarterDoc), css |-> StarterCss]

NextFault ==
    \/ engineFails
    \/ toggleAdvancedMode
    \/ setTab
    \/ SelectComponent
    \/ Frame
    \/ applyEdits
    \/ exportProjectFiles

SpecFault == InitFault /\ [][NextFault]_vars

(***************************************************************************)
(* The code view edited, applied or not, and the project exported, the     *)
(* engine attached and healthy.                                            *)
(***************************************************************************)
NextCode ==
    \/ setTab
    \/ setValue
    \/ SelectComponent
    \/ Frame
    \/ applyEdits
    \/ exportProjectFiles

SpecCode == InitFault /\ [][NextCode]_vars

(***************************************************************************)
(* Templates saved and loaded, the settings and the js text changed in     *)
(* between; localStorage may hold a template of an earlier visit, or an    *)
(* entry another program wrote.                                            *)
(***************************************************************************)
\* a template an earlier visit saved: empty js text, a title with a quote,
\* a theme, the palette switched off with one colour in it
EarlierTemplate ==
    [data |-> [doc |-> ClearedDoc, css |-> StarterCss],
     jsValue |-> JsonQuote(<<>>),
     headSettings |-> JsonStringify([pageTitle |-> <<"a", "\"">>, headHtml |-> <<>>,
                                     exportBaseName |-> <<"p">>], HeadKeys),
     themeChoice |-> JsonQuote(ThemeText("dim")),
     customEnabled |-> JsonBoolean(FALSE),
     customPalette |-> JsonStringify([DefaultPalette EXCEPT ![PaletteKeys[1]] = <<"#111111">>],
                                     PaletteKeys)]

\* an entry whose text JSON.parse rejects
UnparsableTemplate == [EarlierTemplate EXCEPT !.headSettings = <<"{">>]

\* an entry that parses and whose data is no project
UnloadableTemplate == [EarlierTemplate EXCEPT !.data = [pages |-> <<>>]]

StoredTemplates ==
    {<<>>, <<EarlierTemplate>>, <<UnparsableTemplate>>, <<UnloadableTemplate>>}

InitTemplate ==
    /\ appPhase = "running"
    /\ themeChoice = "auto"
    /\ headSettings = DefaultHeadSettings
    /\ customEnabled = FALSE
    /\ customPalette = DefaultPalette
    /\ storage = DefaultStorage
    /\ projectEntry \in StoredTemplates
    /\ hostDark = FALSE
    /\ dataTheme = "light"
    /\ rootStyle = NoStyle
    /\ mqListener = TRUE
    /\ NothingObserved
    /\ editor = TheEditor
    /\ advancedMode = TRUE
    /\ jsValue = DefaultJs
    /\ tab = "js"
    /\ htmlValue = EngineGetHtml(StarterDoc)
    /\ cssValue = StarterCss
    /\ status = StatusReady
    /\ pendingFormat = <<>>
    /\ rafRef = 0
    /\ rafQueue = <<>>
    /\ timers = {}
    /\ engineDoc = StarterDoc
    /\ engineCss = StarterCss
    /\ engineSel = NoSelection
    /\ engineFault = {}
    /\ SideFresh
    /\ evCount = 0
    /\ syncRuns = 1
    /\ firstSync = [html |-> EngineGetHtml(StarterDoc), css |-> StarterCss]

NextTemplate ==
    \/ setValue
    \/ setThemeChoice
    \/ setCustomEnabled
    \/ Frame
    \/ saveTemplate
    \/ loadTemplate
    \/ clearProject

SpecTemplate == InitTemplate /\ [][NextTemplate]_vars

(***************************************************************************)
(* The layout panel of the canvas, the engine attached.                    *)
(***************************************************************************)
NextLayout ==
    \/ SelectComponent
    \/ Deselect
    \/ Frame
    \/ slideGap
    \/ setParentFlex
    \/ setParentGrid

SpecLayout == InitFault /\ [][NextLayout]_vars

(***************************************************************************)
(* The code drawer closed and opened while the canvas is edited, from the  *)
(* application's start.                                                    *)
(***************************************************************************)
NextDrawer ==
    \/ onReady
    \/ CanvasEdit
    \/ Frame
    \/ TimerFire
    \/ hideCode
    \/ showCode
    \/ OrphanFires

SpecDrawer == Init /\ [][NextDrawer]_vars

(***************************************************************************)
(* The engine attached and the canvas edited or not, CodeTabs staying      *)
(* mounted; the browser runs a timer that is due.                          *)
(***************************************************************************)
NextLive ==
    \/ onReady
    \/ CanvasEdit
    \/ SelectComponent
    \/ Frame
    \/ TimerFire

SpecLive == Init /\ [][NextLive]_vars /\ WF_vars(TimerFire)

(***************************************************************************)
(* Format in the code view, on text the user typed.                        *)
(***************************************************************************)
\* text typed into a tab before Format is pressed
ScratchTexts == {<<"a">>, <<" ", "a", " ", " ", "b", "\n">>, <<"a", "<bad">>}

InitFormat ==
    /\ DefaultSettings
    /\ NothingObserved
    /\ editor = TheEditor
    /\ advancedMode = TRUE
    /\ jsValue \in ScratchTexts
    /\ tab = "html"
    /\ htmlValue \in ScratchTexts
    /\ cssValue \in ScratchTexts
    /\ status = StatusReady
    /\ pendingFormat = <<>>
    /\ rafRef = 0
    /\ rafQueue = <<>>
    /\ timers = {}
    /\ engineDoc = StarterDoc
    /\ engineCss = StarterCss
    /\ engineSel = NoSelection
    /\ engineFault = {}
    /\ SideFresh
    /\ evCount = 0
    /\ syncRuns = 1
    /\ firstSync = [html |-> EngineGetHtml(StarterDoc), css |-> StarterCss]

NextFormat ==
    \/ setTab
    \/ toggleAdvancedMode
    \/ setValue
    \/ formatCurrent
    \/ formatSettles

SpecFormat == InitFormat /\ [][NextFormat]_vars

(***************************************************************************)
(* Properties.  What the statements below say of text is computed here     *)
(* from the text itself, position by position, not by the replace passes   *)
(* of the code.                                                            *)
(***************************************************************************)
Indices(s) == [i \in 1..Len(s) |-> i]

RECURSIVE Flatten(_)
Flatten(ss) == IF ss = <<>> THEN <<>> ELSE Head(ss) \o Flatten(Tail(ss))

\* s without its leading and trailing white space
Trimmed(s) ==
    LET black == {i \in 1..Len(s) : s[i] \notin WhiteSpace}
    IN  IF black = {} THEN <<>>
        ELSE SubSeq(s, CHOOSE i \in black : \A j \in black : i <= j,
                       CHOOSE i \in black : \A j \in black : i >= j)

\* s with every character of class cs that follows another one removed
RunsCollapsed(s, cs) ==
    LET kept == SelectSeq(Indices(s), LAMBDA i : ~(s[i] \in cs /\ i > 1 /\ s[i - 1] \in cs))
    IN  [k \in 1..Len(kept) |-> s[kept[k]]]

Dashed(s, cs) == [i \in 1..Len(s) |-> IF s[i] \in cs THEN "-" ELSE s[i]]

\* trim; every forbidden character becomes "-"; every white-space run becomes one "-"
PerCharSanitized(s) ==
    Dashed(RunsCollapsed(Dashed(Trimmed(s), ForbiddenChars), WhiteSpace), WhiteSpace)

\* trim; every run of forbidden characters becomes one "-"; every white-space
\* run becomes one "-"
RunSanitized(s) ==
    Dashed(RunsCollapsed(RunsCollapsed(Trimmed(s), ForbiddenChars), WhiteSpace),
           ForbiddenChars \cup WhiteSpace)

Entity(c) ==
    CASE c = "&" -> AmpEntity
      [] c = "<" -> LtEntity
      [] c = ">" -> GtEntity
      [] c = "\"" -> QuotEntity
      [] c = "'" -> AposEntity
      [] OTHER -> <<c>>

\* every character of s replaced by its entity, once
Escaped(s) == Flatten([i \in 1..Len(s) |-> Entity(s[i])])

FirstIndex(s, x) == CHOOSE i \in 1..Len(s) : s[i] = x /\ \A j \in 1..(i - 1) : s[j] # x

\* the text of s between its first open and the first close after it
Between(s, open, close) ==
    LET rest == SubSeq(s, FirstIndex(s, open) + 1, Len(s))
    IN  SubSeq(rest, 1, FirstIndex(rest, close) - 1)

Exported == downloads # <<>>
ExportedHtml == downloads[1].content
\* the base of the first download's file name
ExportedBase == SubSeq(downloads[1].name, 1, Len(downloads[1].name) - 1)
ExportedTitle == Between(ExportedHtml, "  <title>", "</title>\n")
ExportedCssLink == Between(ExportedHtml, "  <link rel=\"stylesheet\" href=\"./", ".css\" />\n")
ExportedJsLink == Between(ExportedHtml, "\n<script src=\"./", ".js\"></script>\n")
Extensions == <<".html", ".css", ".js">>

\* C1: with advanced mode off, Apply on any tab sets the status to the
\* "Enable Advanced Editing Mode to apply changes." message and leaves the
\* engine's HTML and CSS as they were (an engine being there to read them).
C1_ReadOnlyApply ==
    [][(applyEdits /\ editor # NoEditor /\ ~advancedMode) =>
          /\ status' = MsgEnableAdvanced
          /\ getEditorHtml' = getEditorHtml
          /\ getEditorCss' = getEditorCss]_vars

\* Apply was refused on the css tab while its text differed from the stylesheet
C1_Witness ==
    /\ status = MsgEnableAdvanced
    /\ ~advancedMode
    /\ tab = "css"
    /\ cssValue # getEditorCss

\* C2: when one or more change events were delivered before a rendering
\* frame, the frame's callbacks run exactly one regeneration, and the html
\* and css text then equal the engine's serializations.
C2_Coalescing ==
    frameEvents >= 1 =>
        /\ frameSyncs = 1
        /\ htmlValue = getEditorHtml
        /\ cssValue = getEditorCss

\* a frame that followed two events or more
C2_Witness == frameEvents >= 2 /\ frameSyncs = 1

\* C3: with advanced mode on, the html tab active and nothing selected,
\* Apply gets ok = false, sets the status to the "No component selected"
\* message, invokes no engine command and leaves HTML and CSS unchanged.
C3_NoSelectionApply ==
    [][(/\ applyEdits
        /\ editor # NoEditor
        /\ advancedMode
        /\ tab = "html"
        /\ engineSel = NoSelection) =>
          /\ ~applyHtmlToSelected(engineDoc, engineSel, htmlValue).ok
          /\ status' = MsgNoSelection
          /\ calls' = <<>>
          /\ thrown' = "none"
          /\ getEditorHtml' = getEditorHtml
          /\ getEditorCss' = getEditorCss]_vars

\* Apply found no selection for html text the user had typed
C3_Witness ==
    /\ status = MsgNoSelection
    /\ advancedMode
    /\ tab = "html"
    /\ engineSel = NoSelection
    /\ htmlValue \in EditHtmlTexts
    /\ \E n \in NodeSet : engineDoc[n] # <<>>

C5_EmptyBaseFallsBack ==
    Exported =>
        /\ ExportedBase # <<>>
        /\ PerCharSanitized(headSettings.exportBaseName) = <<>> =>
              /\ \A i \in 1..3 : downloads[i].name = DefaultBaseName \o <<Extensions[i]>>
              /\ ExportedCssLink = DefaultBaseName
              /\ ExportedJsLink = DefaultBaseName

\* C6 as stated: the base is the trimmed input with each forbidden character
\* replaced by "-" and each white-space run by one "-" (the empty input
\* giving the default base); it holds no forbidden character or white space.
C6_PerCharSanitization ==
    Exported =>
        /\ ExportedBase =
              IF headSettings.exportBaseName = <<>>
              THEN DefaultBaseName
              ELSE PerCharSanitized(headSettings.exportBaseName)
        /\ \A i \in 1..Len(ExportedBase) :
              ExportedBase[i] \notin ForbiddenChars \cup WhiteSpace

\* C6 as amended: the base is the trimmed input with each run of forbidden
\* characters replaced by one "-" and each white-space run by one "-" (the
\* empty input giving the default base); it holds no forbidden character
\* or white space.
C6_RunSanitization ==
    Exported =>
        /\ ExportedBase =
              IF headSettings.exportBaseName = <<>>
              THEN DefaultBaseName
              ELSE RunSanitized(headSettings.exportBaseName)
        /\ \A i \in 1..Len(ExportedBase) :
              ExportedBase[i] \notin ForbiddenChars \cup WhiteSpace

\* an export of a base name holding two forbidden characters in a row
C6_Witness ==
    /\ Exported
    /\ \E i \in 1..(Len(headSettings.exportBaseName) - 1) :
          /\ headSettings.exportBaseName[i] \in ForbiddenChars
          /\ headSettings.exportBaseName[i + 1] \in ForbiddenChars

\* C7: the .html is doctype, html[lang=en], head with charset meta, viewport
\* meta, the escaped title, the head fragment as typed, the link to
\* ./<base>.css, then body with the engine's html as it is and the script
\* tag of ./<base>.js, <base> being the base of the file names.
C7_DocumentShape ==
    Exported =>
        ExportedHtml = Flatten(<<
            <<"<!doctype html>\n">>,
            <<"<html lang=\"en\">\n">>,
            <<"<head>\n">>,
            <<"  <meta charset=\"utf-8\" />\n">>,
            <<"  <meta name=\"viewport\" content=\"width=device-width,initial-scale=1\" />\n">>,
            <<"  <title>">>,
            Escaped(Trimmed(IF headSettings.pageTitle = <<>>
                            THEN DefaultPageTitle ELSE headSettings.pageTitle)),
            <<"</title>\n">>,
            headSettings.headHtml,
            <<"\n">>,
            <<"  <link rel=\"stylesheet\" href=\"./">>, ExportedBase, <<".css\" />\n">>,
            <<"</head>\n">>,
            <<"<body>\n">>,
            getEditorHtml,
            <<"\n<script src=\"./">>, ExportedBase, <<".js\"></script>\n">>,
            <<"</body>\n">>,
            <<"</html>">> >>)

\* an export with a head fragment that escaping would change and a base
\* name that sanitizing changed
C7_Witness ==
    /\ Exported
    /\ headSettings.headHtml # <<>>
    /\ Escaped(headSettings.headHtml) # headSettings.headHtml
    /\ ExportedBase # headSettings.exportBaseName

\* C8: the text inside <title> is the title with each of & < > " ' replaced
\* by its entity exactly once; it holds no raw < > " or '.
C8_TitleEscaping ==
    Exported =>
        /\ ExportedTitle =
              Escaped(Trimmed(IF headSettings.pageTitle = <<>>
                              THEN DefaultPageTitle ELSE headSettings.pageTitle))
        /\ \A i \in 1..Len(ExportedTitle) : ExportedTitle[i] \notin {"<", ">", "\"", "'"}

\* an export of a title holding an ampersand and another escaped character
C8_Witness ==
    /\ Exported
    /\ \E i, j \in 1..Len(headSettings.pageTitle) :
          /\ headSettings.pageTitle[i] = "&"
          /\ headSettings.pageTitle[j] \in {"<", ">", "\"", "'"}

\* C9: every Export with an engine attached triggers exactly three
\* downloads, <base>.html, <base>.css, <base>.js in this order and of one
\* base, of media types text/html, text/css and text/javascript.
C9_ExportBundle ==
    [][(exportProjectFiles /\ editor # NoEditor) =>
          /\ Len(downloads') = 3
          /\ \A i \in 1..3 : downloads'[i].name = ExportedBase' \o <<Extensions[i]>>
          /\ downloads'[1].mime[1] = "text/html"
          /\ downloads'[2].mime[1] = "text/css"
          /\ downloads'[3].mime[1] = "text/javascript"]_vars

\* an export under a base name of the user's
C9_Witness ==
    /\ Len(downloads) = 3
    /\ headSettings.exportBaseName \notin {<<>>, DefaultBaseName}

\* C10: the .css download is the engine's css and the .js download is the js
\* text, each exactly.
C10_VerbatimPayloads ==
    Exported =>
        /\ downloads[2].content = getEditorCss
        /\ downloads[3].content = jsValue

\* an export while the code view's css text differs from the stylesheet and
\* the js text was replaced
C10_Witness ==
    /\ Exported
    /\ cssValue # getEditorCss
    /\ jsValue # DefaultJs

\* the three payloads, from the engine's html and css, the js text and the
\* three head settings alone
PayloadsOf(html, css, js, title, head, name) ==
    LET file == IF name = <<>> THEN DefaultBaseName ELSE RunSanitized(name)
    IN  << Flatten(<<
               <<"<!doctype html>\n">>,
               <<"<html lang=\"en\">\n">>,
               <<"<head>\n">>,
               <<"  <meta charset=\"utf-8\" />\n">>,
               <<"  <meta name=\"viewport\" content=\"width=device-width,initial-scale=1\" />\n">>,
               <<"  <title>">>,
               Escaped(Trimmed(IF title = <<>> THEN DefaultPageTitle ELSE title)),
               <<"</title>\n">>,
               head,
               <<"\n">>,
               <<"  <link rel=\"stylesheet\" href=\"./">>, file, <<".css\" />\n">>,
               <<"</head>\n">>,
               <<"<body>\n">>,
               html,
               <<"\n<script src=\"./">>, file, <<".js\"></script>\n">>,
               <<"</body>\n">>,
               <<"</html>">> >>),
           css,
           js >>

\* C11: an Export leaves the Document, the selection, the js text, the code
\* view's html and css text and every setting as they were; its payloads are
\* those computed from the engine's html and css, the js text and the three
\* head settings alone, so an Export that follows an Export repeats its
\* downloads.
C11_ExportSideEffectFree ==
    [][(exportProjectFiles /\ editor # NoEditor) =>
          /\ UNCHANGED <<engineDoc, engineCss, engineSel, jsValue, htmlValue, cssValue,
                         headSettings, themeChoice, customEnabled, customPalette,
                         storage, projectEntry>>
          /\ Len(downloads') = 3
          /\ \A i \in 1..3 :
                downloads'[i].content =
                    PayloadsOf(getEditorHtml, getEditorCss, jsValue,
                               headSettings.pageTitle, headSettings.headHtml,
                               headSettings.exportBaseName)[i]
          /\ Exported => downloads' = downloads]_vars

\* an export of a Document with a node selected, a head fragment and a base
\* name of the user's, the code view's css text being unapplied
C11_Witness ==
    /\ Exported
    /\ engineSel # NoSelection
    /\ headSettings.headHtml # <<>>
    /\ headSettings.exportBaseName # <<>>
    /\ cssValue # getEditorCss

\* a step that runs the forward sync: the mount effect's sync, one of its
\* two timers, or a frame with a callback armed
ForwardSync == onReady \/ TimerFire \/ (Frame /\ rafQueue # <<>>)

\* C12: with advanced mode on and the css tab active, Apply makes the css
\* tab's text T the engine's whole stylesheet, nothing of the stylesheet
\* before it kept, and the forward sync that follows stores T as the css
\* text again (the engine serializing T as it is).
C12_CssRoundTrip ==
    [][/\ (applyEdits /\ editor # NoEditor /\ advancedMode /\ tab = "css") =>
             /\ getEditorCss' = cssValue
             /\ cssValue' = cssValue
             /\ status' = MsgAppliedCss
       /\ (calls = <<"setStyle">> /\ ForwardSync) =>
             /\ cssValue' = cssValue
             /\ cssValue' = getEditorCss']_vars

\* the forward sync ran after an Apply of css text the user had typed over
\* another stylesheet
C12_Witness ==
    /\ status = MsgAppliedCss
    /\ syncRuns >= 1
    /\ firstSync.css = cssValue
    /\ cssValue = getEditorCss
    /\ cssValue # StarterCss

\* C17: a forward sync that follows another with no change of the Document
\* between them stores the html and css text the first of them stored.
C17_SyncIdempotent ==
    [][(ForwardSync /\ syncRuns >= 1) =>
          /\ htmlValue' = firstSync.html
          /\ cssValue' = firstSync.css]_vars

\* two regenerations or more of a Document the canvas had changed
C17_Witness ==
    /\ syncRuns >= 2
    /\ htmlValue = firstSync.html
    /\ cssValue = firstSync.css
    /\ \E n \in NodeSet : engineDoc[n] \in CanvasFrags

\* C18: with advanced mode on and the js tab active, Apply sets the status
\* to "JS saved for export." and changes neither the engine's html and css
\* nor the js text; the js text changes only in an edit on the js tab, a
\* Format or a template load, never in a forward sync.
C18_JsApplyAcknowledges ==
    [][/\ (applyEdits /\ editor # NoEditor /\ advancedMode /\ tab = "js") =>
             /\ status' = MsgJsSaved
             /\ calls' = <<>>
             /\ getEditorHtml' = getEditorHtml
             /\ getEditorCss' = getEditorCss
             /\ jsValue' = jsValue
       /\ jsValue' # jsValue =>
             \/ setValue /\ tab = "js"
             \/ formatSettles
             \/ loadTemplate]_vars

\* the js tab applied, and regenerated over, with js text the user had typed
C18_Witness ==
    /\ status = MsgJsSaved
    /\ advancedMode
    /\ tab = "js"
    /\ jsValue # DefaultJs
    /\ syncRuns >= 1

\* C13: whatever the engine does, nothing escapes applyEdits or
\* exportProjectFiles: a failure of the css apply, of the html apply or of
\* the export is caught inside the handler and becomes the status.
C13_FailuresContained ==
    [][(applyEdits \/ exportProjectFiles) => thrown' = "none"]_vars

\* C14: after a page load, whatever localStorage held, the theme choice is
\* one of auto, dark, dim and light, the head settings and the palette are
\* objects, and neither the load nor an operation after it raised an error.
C14_DefaultsOnCorruptStorage ==
    appPhase # "off" =>
        /\ appPhase = "running"
        /\ thrown = "none"
        /\ themeChoice \in ThemeChoices
        /\ IsObject(headSettings)
        /\ IsObject(customPalette)

\* the value in memory that a stored entry holds
InMemory(k) ==
    CASE k = "theme" -> <<"theme", themeChoice>>
      [] k = "head" -> <<"head", headSettings>>
      [] k = "enabled" -> <<"enabled", customEnabled>>
      [] k = "palette" -> <<"palette", customPalette>>

\* every stored entry is the serialization of its value in memory, and the
\* initializers of a page load read the values in memory back from storage
Durable ==
    /\ storage["theme"] = <<themeChoice>>
    /\ storage["head"] = <<JsonStringify(headSettings, HeadKeys)>>
    /\ storage["enabled"] = <<IF customEnabled THEN "1" ELSE "0">>
    /\ storage["palette"] = <<JsonStringify(customPalette, PaletteKeys)>>
    /\ InitialTheme(storage) = themeChoice
    /\ safeJsonParse(storage["head"], DefaultHeadSettings) = headSettings
    /\ InitialEnabled(storage) = customEnabled
    /\ safeJsonParse(storage["palette"], DefaultPalette) = customPalette

\* C15: once a handler has run, each of the four stored entries is the
\* serialization of its own value in memory, and reading the entries back,
\* as a reload does, gives the values in memory; a step changes an entry
\* only when it changed the entry's own value.
C15_SettingsDurable ==
    [][appPhase = "running" =>
          /\ Durable
          /\ appPhase' = "running" =>
                \A k \in StorageKeys :
                    storage'[k] # storage[k] => InMemory(k)' # InMemory(k)]_vars

\* settings of the user's in memory and in storage: an explicit theme, the
\* palette enabled with a colour, a head field holding a backslash
C15_Witness ==
    /\ appPhase = "running"
    /\ Durable
    /\ themeChoice = "light"
    /\ customEnabled
    /\ Coloured(customPalette) >= 1
    /\ \E f \in DOMAIN headSettings, i \in 1..MaxChars :
          i <= Len(headSettings[f]) /\ headSettings[f][i] = "\\"

\* C16: while the theme choice is auto the data-theme attribute is the
\* host's preference, after every flip of it too; while the choice is dark,
\* dim or light the attribute is the choice, whatever the host prefers.
C16_ThemeResolution ==
    appPhase = "running" =>
        /\ themeChoice = "auto" => dataTheme = (IF hostDark THEN "dark" ELSE "light")
        /\ themeChoice \in {"dark", "dim", "light"} => dataTheme = themeChoice

\* the host turned to dark under auto: the attribute followed
C16_Witness ==
    /\ appPhase = "running"
    /\ themeChoice = "auto"
    /\ hostDark
    /\ dataTheme = "dark"

\* a step of one of the handlers that need the engine
EngineOperation ==
    applyEdits \/ exportProjectFiles \/ saveTemplate \/ loadTemplate \/ clearProject

\* C19: while no engine is attached, Apply, Export, Save, Load and Clear
\* raise nothing, download nothing, show nothing and change no state, the
\* status included; and no forward sync runs or is armed.
C19_NoEngineNoOp ==
    [][editor = NoEditor =>
          /\ EngineOperation =>
                /\ UNCHANGED <<appVars, themeVars, storeVars, codeVars, pendingFormat,
                               schedVars, engineVars, engineFault, histVars>>
                /\ downloads' = <<>>
                /\ thrown' = "none"
                /\ alerts' = <<>>
                /\ calls' = <<>>
          /\ editor' = NoEditor =>
                UNCHANGED <<htmlValue, cssValue, status, schedVars, histVars>>]_vars

\* Export pressed before the engine was attached, advanced mode being on
C19_Witness ==
    /\ editor = NoEditor
    /\ refused = "exportProjectFiles"
    /\ advancedMode
    /\ downloads = <<>>

\* C20: when the formatter rejects the text of the tab Format was pressed
\* on, the status becomes "Format failed: " followed by the cause and the
\* html, css and js texts stay as they were; when it accepts the text, only
\* that tab's text is replaced, the two other texts and the Document stay.
C20_FormatFrame ==
    [][formatSettles =>
          \E i \in 1..Len(pendingFormat) :
             LET call == pendingFormat[i]
             IN  /\ pendingFormat' = SubSeq(pendingFormat, 1, i - 1)
                                     \o SubSeq(pendingFormat, i + 1, Len(pendingFormat))
                 /\ UNCHANGED <<engineDoc, engineCss, engineSel>>
                 /\ IF Unformattable(call.text)
                    THEN /\ status' = <<"Format failed: ", SyntaxError>>
                         /\ UNCHANGED <<htmlValue, cssValue, jsValue>>
                    ELSE /\ call.tab # "html" => htmlValue' = htmlValue
                         /\ call.tab # "css" => cssValue' = cssValue
                         /\ call.tab # "js" => jsValue' = jsValue]_vars

\* the formatter rejected the text of the active tab, which is still there
C20_Witness ==
    /\ status = <<"Format failed: ", SyntaxError>>
    /\ pendingFormat = <<>>
    /\ Unformattable(TextOf(tab))
    /\ \E t \in {"html", "css", "js"} : ~Unformattable(TextOf(t))

\* C21: the armed flag is set exactly when one frame callback is pending,
\* and never more than one is; a change event delivered since the last
\* frame has a callback pending; the frame that runs the callback clears
\* the flag and leaves the html and css text equal to the engine's
\* serializations.
C21_BoundedStaleness ==
    [][/\ rafRef # 0 <=> Len(rafQueue) = 1
       /\ Len(rafQueue) <= 1
       /\ evCount > 0 => rafQueue # <<>>
       /\ (Frame /\ rafQueue # <<>>) =>
             /\ rafRef' = 0
             /\ rafQueue' = <<>>
             /\ evCount' = 0
             /\ htmlValue' = getEditorHtml'
             /\ cssValue' = getEditorCss']_vars

\* a frame answered a change of the Document made on the canvas, over html
\* text the user had typed
C21_Witness ==
    /\ frameEvents >= 1
    /\ frameSyncs = 1
    /\ rafRef = 0
    /\ syncRuns = 1
    /\ engineDoc # StarterDoc
    /\ htmlValue = getEditorHtml
    /\ advancedMode

\* C22: a forward sync either stores the engine's html and css of the state
\* it runs in, both, leaving the status, or, when one of the two reads
\* throws, stores neither and sets the status to "Sync failed: " followed by
\* the cause.
C22_AtomicRegeneration ==
    [][ForwardSync =>
          IF Throws("getHtml") \/ Throws("getCss")
          THEN /\ UNCHANGED <<htmlValue, cssValue>>
               /\ status' = <<"Sync failed: ", EngineError>>
          ELSE /\ htmlValue' = getEditorHtml
               /\ cssValue' = getEditorCss
               /\ status' = status]_vars

\* a regeneration whose css read threw after its html read had succeeded:
\* the html text is still the one of the Document before its change
C22_Witness ==
    /\ status = <<"Sync failed: ", EngineError>>
    /\ engineFault = {"getCss"}
    /\ frameSyncs = 1
    /\ htmlValue # getEditorHtml
    /\ cssValue = getEditorCss

\* html text the user typed that no Apply has pushed into the Document
TypedUnapplied ==
    /\ htmlValue \in EditHtmlTexts
    /\ \A n \in NodeSet : engineDoc[n] # htmlValue

\* C24: with advanced mode on, the engine attached and the regenerations of
\* its mounting over, html text the user typed and has not applied is
\* replaced only by what the user types next: no change event and no
\* regeneration puts another text in its place before Apply.
C24_EditedTextSurvives ==
    [][(/\ advancedMode
        /\ editor # NoEditor
        /\ timers = {}
        /\ TypedUnapplied
        /\ htmlValue' # htmlValue) =>
          /\ setValue
          /\ tab = "html"]_vars

\* the markup between <body> and the script tag of the exported document
ExportedFragment == Between(ExportedHtml, "<body>\n", "\n<script src=\"./")

\* C27: the exported document's body holds the engine's html and the .css
\* download is the engine's css, whatever the html and css tabs hold; the
\* .js download is the js text, applied on the js tab or not.
C27_ExportReadsDocument ==
    Exported =>
        /\ ExportedFragment = getEditorHtml
        /\ downloads[2].content = getEditorCss
        /\ downloads[3].content = jsValue
        /\ htmlValue # getEditorHtml =>
              \A i \in 1..3 : ExportedFragment # htmlValue /\ downloads[i].content # htmlValue
        /\ cssValue # getEditorCss =>
              \A i \in 1..3 : downloads[i].content # cssValue

\* an export while the html tab and the css tab held typed text that was
\* not applied and the js text had been replaced, no Apply having been made
\* on the js tab
C27_Witness ==
    /\ Exported
    /\ htmlValue \in EditHtmlTexts
    /\ cssValue # getEditorCss
    /\ jsValue # DefaultJs
    /\ status = StatusReady

\* C26: when the formatter answers a call whose tab no longer holds the
\* text the call was made on, the texts stay as they are: the newer text is
\* not replaced by the formatted older one.
C26_FormatKeepsNewerText ==
    [][formatSettles =>
          \E i \in 1..Len(pendingFormat) :
             LET call == pendingFormat[i]
             IN  /\ pendingFormat' = SubSeq(pendingFormat, 1, i - 1)
                                     \o SubSeq(pendingFormat, i + 1, Len(pendingFormat))
                 /\ TextOf(call.tab) # call.text =>
                       UNCHANGED <<htmlValue, cssValue, jsValue>>]_vars

\* what a template holds of the five values loadTemplate restores
TemplateValues(entry) ==
    [jsValue |-> JsonReadString(entry.jsValue, 2, <<>>).value,
     headSettings |-> JsonParse(entry.headSettings).value,
     themeChoice |-> JsonReadString(entry.themeChoice, 2, <<>>).value,
     customEnabled |-> entry.customEnabled = JsonBoolean(TRUE),
     customPalette |-> JsonParse(entry.customPalette).value]

\* the five values as the application holds them
HeldValues ==
    [jsValue |-> jsValue,
     headSettings |-> headSettings,
     themeChoice |-> ThemeText(themeChoice),
     customEnabled |-> customEnabled,
     customPalette |-> customPalette]

\* C30: with the engine attached, the template Save has just written holds
\* exactly the js text, head settings, theme choice, palette flag and palette
\* of that moment, and right after a Load that succeeded the five are exactly
\* what the template holds, the empty js text and the switched-off palette
\* included; a Load that finds no entry, or an entry that cannot be parsed
\* or loaded, shows an alert and changes none of the five
C30_TemplateRoundTrip ==
    [][ /\ (alerts \in {<<MsgSaved>>, <<MsgLoaded>>}
              => projectEntry # <<>> /\ TemplateValues(projectEntry[1]) = HeldValues)
        /\ (loadTemplate /\ editor # NoEditor /\ alerts' # <<MsgLoaded>>
              => /\ alerts' \in {<<MsgNoTemplate>>, <<MsgLoadFailed(SyntaxError)>>,
                                 <<MsgLoadFailed(EngineError)>>}
                 /\ UNCHANGED <<jsValue, headSettings, themeChoice, customEnabled,
                                customPalette>>)
        /\ (loadTemplate /\ editor # NoEditor
              => (alerts' = <<MsgLoaded>>
                    <=> /\ projectEntry \notin {<<>>, <<UnparsableTemplate>>,
                                                <<UnloadableTemplate>>}))
      ]_vars

\* a template with an empty js text and the palette switched off has been
\* loaded over other values
C30_Witness ==
    /\ alerts = <<MsgLoaded>>
    /\ jsValue = <<>>
    /\ ~customEnabled
    /\ themeChoice = "dim"
    /\ projectEntry = <<EarlierTemplate>>


\* the overrides the palette state asks for: none when the palette is
\* disabled, otherwise exactly its non-empty entries
PaletteOverrides ==
    [f \in DOMAIN NoStyle |-> IF customEnabled THEN Get(customPalette, f) ELSE <<>>]

\* C28: while the page runs, the custom properties set on the document
\* element are exactly the overrides the palette state asks for: none when
\* the palette is disabled, the non-empty entries when it is enabled, so an
\* entry cleared or reset while the palette is enabled has no override left
C28_AppliedPaletteMatches ==
    appPhase = "running" => rootStyle = PaletteOverrides


\* C29: with a component selected, moving the gap slider to n leaves the
\* gap the panel shows equal to clamp(n, 0, 80) and the parent's gap style
\* equal to that value in px, whether the parent was flex or grid already or
\* not, and in the second case the parent has become a flex row; the gap
\* shown is always within 0..80
C29_GapControl ==
    [][ /\ gapPx' \in 0..80
        /\ \A n \in GapInputs :
              setGap(n) /\ engineSel # NoSelection
                 => /\ gapPx' = clamp(n, 0, 80)
                    /\ parentStyle'.gap = PxText(clamp(n, 0, 80))
                    /\ (parentMode \notin {"flex", "grid"}
                          => /\ parentStyle'.display = "flex"
                             /\ parentStyle'.flexDirection = "row") ]_vars


\* C25: once CodeTabs' subscription to the engine is torn down, no frame
\* callback or settle-delay timer it had pending runs a regeneration, and a
\* newly mounted CodeTabs starts with no callback armed, so the first change
\* event it receives arms one of its own
C25_TeardownCancelsCallbacks ==
    [][ /\ orphanRuns' = 0
        /\ (~codeOpen /\ codeOpen' => rafRef' = 0 /\ rafQueue' = <<>>) ]_vars


\* C23: the step that attaches the engine to a mounted CodeTabs leaves the
\* html and css text equal to the engine's serializations, before any change
\* event is delivered, and sets the settle-delay timer; the step in which
\* that timer fires leaves the texts equal to the serializations again; and
\* the timer, once set, eventually fires, whether or not the engine ever
\* emits a change event
C23_InitialMountSync ==
    /\ [][ /\ (editor = NoEditor /\ editor' = TheEditor /\ codeOpen)
                => /\ htmlValue' = getEditorHtml'
                   /\ cssValue' = getEditorCss'
                   /\ syncRuns' >= 1
                   /\ evCount' = 0
                   /\ 200 \in timers'
           /\ (200 \in timers /\ 200 \notin timers' /\ codeOpen')
                => /\ htmlValue' = getEditorHtml'
                   /\ cssValue' = getEditorCss' ]_vars
    /\ (200 \in timers) ~> (200 \notin timers /\ editor = TheEditor /\ syncRuns >= 1)

\* the engine is attached, both timers have fired, and no change event was
\* ever delivered
C23_Witness ==
    /\ editor = TheEditor
    /\ timers = {}
    /\ syncRuns = MaxSyncRuns
    /\ evCount = 0
    /\ rafRef = 0
    /\ engineDoc = StarterDoc
    /\ engineSel = NoSelection
    /\ htmlValue = getEditorHtml


====
